---- MODULE Spec2Model ----
(***************************************************************************)
(* State-machine model of the PartInventory scripts.  Every script is a   *)
(* batch program run on its own from the command line; each has its own   *)
(* record variable (Off while another script runs) and its own            *)
(* specification.                                                          *)
(***************************************************************************)
EXTENDS Integers, Sequences, FiniteSets, TLC

VARIABLES fix, cvt, spl, dl, arch, mrg, apr, exp, api, agr, crt, chk

vars == <<fix, cvt, spl, dl, arch, mrg, apr, exp, api, agr, crt, chk>>

\* A script that is not running.
Off == [pc |-> "off"]

(***************************************************************************)
(* JSON values as Python sees them after json.load.  A scalar is a tagged *)
(* value: "null", "int", "float", "numstr" (a string float() parses, such *)
(* as "3"), "text" (any other string), "nan".                              *)
(***************************************************************************)
J(t, v) == [t |-> t, v |-> v]
None == J("null", 0)
I(n) == J("int", n)
F(n) == J("float", n)
S(n) == J("numstr", n)
Text == J("text", 0)
NaN == J("nan", 0)

\* An element of a JSON list: a scalar, or a list of scalars.
El(s) == [isList |-> FALSE, s |-> s, l |-> <<>>]
Ls(q) == [isList |-> TRUE, s |-> None, l |-> q]
\* A list-valued field: k says whether the value is null, a list or
\* something else (a string, a number).
JList(q) == [k |-> "list", items |-> q]
JNull == [k |-> "null", items |-> <<>>]
JScalar == [k |-> "scalar", items |-> <<>>]
Flat(q) == JList([i \in 1..Len(q) |-> El(q[i])])
Nested(qq) == JList([i \in 1..Len(qq) |-> Ls(qq[i])])

Range(q) == {q[i] : i \in 1..Len(q)}

\* Python's == on two scalars: int and float compare by value, NaN equals
\* nothing, a string never equals a number.
PyEq(a, b) ==
    IF a.t = "nan" \/ b.t = "nan" THEN FALSE
    ELSE IF a.t \in {"int", "float"} /\ b.t \in {"int", "float"} THEN a.v = b.v
    ELSE a = b

\* Python's == on two list elements.
PyEqEl(a, b) ==
    IF a.isList # b.isList THEN FALSE
    ELSE IF a.isList
         THEN /\ Len(a.l) = Len(b.l)
              /\ \A i \in 1..Len(a.l) : PyEq(a.l[i], b.l[i])
         ELSE PyEq(a.s, b.s)

\* Python's == on two lists.
PyEqList(p, q) ==
    /\ Len(p) = Len(q)
    /\ \A i \in 1..Len(p) : PyEqEl(p[i], q[i])

\* float(v): the float, or "err" for the ValueError / TypeError.
float(v) ==
    CASE v.t \in {"int", "float", "numstr"} -> F(v.v)
      [] v.t = "nan" -> NaN
      [] OTHER -> J("err", 0)

\* int(v): numbers and numeric strings convert, the rest raise.
int(v) ==
    CASE v.t \in {"int", "float", "numstr"} -> I(v.v)
      [] OTHER -> J("err", 0)

(***************************************************************************)
(* Segmentations.  A segmentation is null, a dict (the RLE form), a list  *)
(* (the polygon form) or something else.  poly names the shape of a list: *)
(* "polys" a list of coordinate lists, "flat" one flat coordinate list,   *)
(* "flat_odd" a flat list of odd length, "strs" a list of strings,        *)
(* "empty" the empty list.                                                 *)
(***************************************************************************)
Seg(k, has, size, counts, poly) ==
    [k |-> k, has |-> has, size |-> size, counts |-> counts, poly |-> poly]
SegNone == Seg("null", {}, <<>>, "na", "na")
SegRLE(h, w) == Seg("dict", {"size", "counts"}, <<h, w>>, "str", "na")
SegPoly(shape) == Seg("list", {}, <<>>, "na", shape)
SegOther == Seg("other", {}, <<>>, "na", "na")
\* A dict with counts as an uncompressed list, a dict with no counts, {}.
SegDictListCounts == Seg("dict", {"size", "counts"}, <<2, 3>>, "list", "na")
SegDictNoCounts == Seg("dict", {"size"}, <<2, 3>>, "na", "na")
SegEmptyDict == Seg("dict", {}, <<>>, "na", "na")

\* An image of data['images'].
Image(id, h, w) == [id |-> id, height |-> h, width |-> w]

(***************************************************************************)
(* utils/fix_train_annotations.py                                          *)
(***************************************************************************)

\* An annotation as fix_train_annotations reads it; a missing key and a
\* null value are the same to ann.get(...).
FixAnn(id, image_id, seg, bbox, area, iscrowd) ==
    [id |-> id, image_id |-> image_id, segmentation |-> seg, bbox |-> bbox,
     area |-> area, iscrowd |-> iscrowd]

is_valid_rle_segmentation(seg) ==
    /\ seg.k = "dict"
    /\ {"size", "counts"} \subseteq seg.has
    /\ Len(seg.size) = 2
    /\ seg.counts = "str"

BBoxFail == [ok |-> FALSE, fixed |-> JNull]

\* is_valid_bbox without the check of the dimensions.
is_valid_bbox_no_dimension_check(bbox) ==
    IF bbox.k # "list" THEN BBoxFail
    ELSE LET items == bbox.items
             b == IF Len(items) > 0 /\ items[1].isList
                  THEN [i \in 1..Len(items[1].l) |-> El(items[1].l[i])]
                  ELSE items
             fl == [i \in 1..Len(b) |->
                      IF b[i].isList THEN J("err", 0) ELSE float(b[i].s)]
         IN  IF Len(b) # 4 THEN BBoxFail
             ELSE IF \E i \in 1..4 : fl[i].t = "err" THEN BBoxFail
             ELSE IF \E i \in 1..4 : fl[i].t = "nan" THEN BBoxFail
             ELSE [ok |-> TRUE, fixed |-> Flat(fl)]

\* is_valid_bbox that flattens nothing: a nested bbox is returned as it is.
is_valid_bbox_no_flatten(bbox) ==
    IF bbox.k # "list" THEN BBoxFail
    ELSE LET items == bbox.items
             nested == Len(items) > 0 /\ items[1].isList
             b == IF nested
                  THEN [i \in 1..Len(items[1].l) |-> El(items[1].l[i])]
                  ELSE items
             fl == [i \in 1..Len(b) |->
                      IF b[i].isList THEN J("err", 0) ELSE float(b[i].s)]
         IN  IF Len(b) # 4 THEN BBoxFail
             ELSE IF \E i \in 1..4 : fl[i].t = "err" THEN BBoxFail
             ELSE IF (fl[3].t = "float" /\ fl[3].v <= 0)
                     \/ (fl[4].t = "float" /\ fl[4].v <= 0) THEN BBoxFail
             ELSE IF \E i \in 1..4 : fl[i].t = "nan" THEN BBoxFail
             ELSE [ok |-> TRUE, fixed |-> IF nested THEN bbox ELSE Flat(fl)]

\* is_valid_bbox: (is_valid, fixed_bbox).  A nested bbox is replaced by its
\* first inner list; the four values go through float(); width and height
\* must be positive (a comparison with NaN is false, NaN is refused after).
is_valid_bbox(bbox) ==
    IF bbox.k # "list" THEN BBoxFail
    ELSE LET items == bbox.items
             b == IF Len(items) > 0 /\ items[1].isList
                  THEN [i \in 1..Len(items[1].l) |-> El(items[1].l[i])]
                  ELSE items
             fl == [i \in 1..Len(b) |->
                      IF b[i].isList THEN J("err", 0) ELSE float(b[i].s)]
         IN  IF Len(b) # 4 THEN BBoxFail
             ELSE IF \E i \in 1..4 : fl[i].t = "err" THEN BBoxFail
             ELSE IF (fl[3].t = "float" /\ fl[3].v <= 0)
                     \/ (fl[4].t = "float" /\ fl[4].v <= 0) THEN BBoxFail
             ELSE IF \E i \in 1..4 : fl[i].t = "nan" THEN BBoxFail
             ELSE [ok |-> TRUE, fixed |-> Flat(fl)]

is_valid_area(area) ==
    LET a == float(area)
    IN  a.t = "float" /\ a.v > 0

is_valid_iscrowd(iscrowd) ==
    LET c == int(iscrowd)
    IN  c.t = "int" /\ c.v \in {0, 1}

\* pycocotools frPyObjects + merge on a polygon list: the merged RLE, whose
\* counts are bytes, or "raise" for what the library refuses (anything but
\* a list of coordinate lists).
maskUtils_frPyObjects_merge(segmentation, height, width) ==
    IF segmentation.poly = "polys"
    THEN [raised |-> FALSE, size |-> <<height, width>>, counts |-> "bytes"]
    ELSE [raised |-> TRUE, size |-> <<>>, counts |-> "na"]

\* bytes.decode('utf-8') when the counts are bytes.
DecodeCounts(counts) == IF counts = "bytes" THEN "str" ELSE counts

\* polygon_to_rle(segmentation, height, width): the RLE dict, or SegNone
\* for the None it returns.
fix_polygon_to_rle(segmentation, height, width) ==
    IF segmentation.k = "list"
    THEN LET rle == maskUtils_frPyObjects_merge(segmentation, height, width)
         IN  IF rle.raised THEN SegNone
             ELSE Seg("dict", {"size", "counts"}, <<height, width>>,
                      DecodeCounts(rle.counts), "na")
    ELSE SegNone

\* image_dims: the dict built from data['images'] (a later image with the
\* same id replaces an earlier one).
InImages(images, image_id) == \E i \in 1..Len(images) : images[i].id = image_id
ImageOf(images, image_id) ==
    LET last == CHOOSE i \in 1..Len(images) :
                   /\ images[i].id = image_id
                   /\ \A j \in (i + 1)..Len(images) : images[j].id # image_id
    IN  images[last]

\* Step 1 of the loop body: the segmentation check.
FixCheckSegmentation(ann, images) ==
    LET seg == ann.segmentation
    IN  IF seg.k = "null" THEN [ok |-> FALSE, ann |-> ann, converted |-> 0]
        ELSE IF is_valid_rle_segmentation(seg)
        THEN [ok |-> TRUE, ann |-> ann, converted |-> 0]
        ELSE IF seg.k = "list"
        THEN IF ~InImages(images, ann.image_id)
             THEN [ok |-> FALSE, ann |-> ann, converted |-> 0]
             ELSE LET img == ImageOf(images, ann.image_id)
                      rle == fix_polygon_to_rle(seg, img.height, img.width)
                  IN  IF rle # SegNone
                      THEN [ok |-> TRUE,
                            ann |-> [ann EXCEPT !.segmentation = rle],
                            converted |-> 1]
                      ELSE [ok |-> FALSE, ann |-> ann, converted |-> 0]
        ELSE [ok |-> FALSE, ann |-> ann, converted |-> 0]

\* Step 2: the bbox check and repair.
FixCheckBBox(ann) ==
    IF ann.bbox.k = "null" THEN [ok |-> FALSE, ann |-> ann, fixed |-> 0]
    ELSE LET r == is_valid_bbox(ann.bbox)
         IN  IF ~r.ok THEN [ok |-> FALSE, ann |-> ann, fixed |-> 0]
             ELSE IF r.fixed.k # ann.bbox.k
                     \/ ~PyEqList(r.fixed.items, ann.bbox.items)
             THEN [ok |-> TRUE, ann |-> [ann EXCEPT !.bbox = r.fixed],
                   fixed |-> 1]
             ELSE [ok |-> TRUE, ann |-> ann, fixed |-> 0]

\* Steps 3 and 4: area and iscrowd.
FixCheckArea(ann) == ann.area.t # "null" /\ is_valid_area(ann.area)
FixCheckIscrowd(ann) == ann.iscrowd.t # "null" /\ is_valid_iscrowd(ann.iscrowd)

\* The loop body on one annotation: every check runs, the repairs are made
\* in place, and the annotation is kept when all four checks passed.
FixProcess(ann, images) ==
    LET s == FixCheckSegmentation(ann, images)
        b == FixCheckBBox(s.ann)
    IN  [valid |-> s.ok /\ b.ok /\ FixCheckArea(ann) /\ FixCheckIscrowd(ann),
         ann |-> b.ann, converted |-> s.converted, fixed |-> b.fixed]

\* The indices i of 1..n, in order, with keep[i].
KeptIndices(keep, n) ==
    LET K == {k \in 1..n : keep[k]}
    IN  [m \in 1..Cardinality(K) |->
            CHOOSE k \in K : Cardinality({j \in K : j <= k}) = m]

RECURSIVE SumSeq(_)
SumSeq(q) == IF q = <<>> THEN 0 ELSE q[1] + SumSeq(Tail(q))

\* Re-indexing that numbers from 0.
FixReindexFromZero(valid_annotations) ==
    [j \in 1..Len(valid_annotations) |->
        [valid_annotations[j] EXCEPT !.id = I(j - 1)]]

\* for new_id, ann in enumerate(valid_annotations, start=1): ann['id'] = new_id
FixReindex(valid_annotations) ==
    [j \in 1..Len(valid_annotations) |->
        [valid_annotations[j] EXCEPT !.id = I(j)]]

\* main(): validate every annotation, keep the valid ones, re-index them and
\* write the file.
FixMain ==
    /\ fix.pc = "loaded"
    /\ LET anns == fix.annotations
           n == Len(anns)
           res == [i \in 1..n |-> FixProcess(anns[i], fix.images)]
           kept == KeptIndices([i \in 1..n |-> res[i].valid], n)
           valid_annotations == [j \in 1..Len(kept) |-> res[kept[j]].ann]
       IN  fix' = [fix EXCEPT
                     !.pc = "done",
                     !.kept = kept,
                     !.written = FixReindex(valid_annotations),
                     !.removed = n - Len(kept),
                     !.bbox_fixed = SumSeq([i \in 1..n |-> res[i].fixed]),
                     !.seg_converted = SumSeq([i \in 1..n |-> res[i].converted])]
    /\ UNCHANGED <<cvt, spl, dl, arch, mrg, apr, exp, api, agr, crt, chk>>

\* The input files the model draws from.
MaxAnns == 2

SeqsUpTo(dom, n) == UNION {[1..k -> dom] : k \in 0..n}

GoodBBox == Flat(<<I(1), I(2), I(3), I(4)>>)

FixBBoxes ==
    { JNull, JScalar, GoodBBox,
      Flat(<<F(1), F(2), F(3), F(4)>>),
      Flat(<<I(1), I(2), I(0), I(4)>>),
      Flat(<<I(1), I(2), I(3), I(-1)>>),
      Flat(<<S(1), S(2), S(3), S(4)>>),
      Flat(<<I(1), I(2), Text, I(4)>>),
      Flat(<<I(1), I(2), I(3), NaN>>),
      Flat(<<I(1), I(2), I(3)>>),
      Nested(<< <<I(1), I(2), I(3), I(4)>> >>),
      Nested(<< <<I(1), I(2), I(0), I(4)>> >>),
      Nested(<< <<S(1), S(2), S(3), S(4)>> >>),
      Nested(<< <<I(1), I(2), I(3)>> >>),
      Nested(<< <<I(4), I(3), I(2), I(1)>>, <<I(1), I(2), I(3), I(4)>> >>) }

FixSegs ==
    { SegNone, SegRLE(5, 4), SegDictListCounts, SegDictNoCounts, SegOther,
      SegPoly("polys"), SegPoly("flat"), SegPoly("empty") }

FixImages == <<Image(I(1), 2, 3), Image(I(2), 5, 4)>>

\* The annotations of the input file: a good annotation with one field
\* varied over every value of that field (and a polygon of an unknown
\* image, a polygon with a nested bbox, an annotation with no id).
FixAnnShapes ==
    {FixAnn(I(7), I(1), SegRLE(2, 3), bbox, I(5), I(0)) : bbox \in FixBBoxes}
    \cup {FixAnn(I(7), I(2), seg, GoodBBox, I(5), I(0)) : seg \in FixSegs}
    \cup {FixAnn(I(7), I(9), seg, GoodBBox, I(5), I(0)) :
            seg \in {SegPoly("polys"), SegRLE(5, 4)}}
    \cup {FixAnn(None, I(1), SegPoly("polys"),
                 Nested(<< <<I(1), I(2), I(3), I(4)>> >>), I(5), I(0))}
    \cup {FixAnn(I(7), I(2), SegRLE(5, 4), GoodBBox, area, I(0)) :
            area \in {None, I(0), S(5), Text}}
    \cup {FixAnn(I(7), I(2), SegRLE(5, 4), GoodBBox, I(5), iscrowd) :
            iscrowd \in {None, I(1), I(2), Text}}

FixInit ==
    /\ fix \in {[pc |-> "loaded", images |-> FixImages, annotations |-> a,
                 written |-> <<>>, kept |-> <<>>, removed |-> 0,
                 bbox_fixed |-> 0, seg_converted |-> 0] :
                   a \in SeqsUpTo(FixAnnShapes, MaxAnns)}
    /\ cvt = Off /\ spl = Off /\ dl = Off /\ arch = Off
    /\ mrg = Off /\ apr = Off /\ exp = Off /\ api = Off /\ agr = Off /\ crt = Off /\ chk = Off

FixNext == FixMain

SpecFix == FixInit /\ [][FixNext]_vars

(***************************************************************************)
(* utils/convert_cvat_to_rle.py                                            *)
(***************************************************************************)

\* An annotation as convert_cvat_to_rle reads it.  category_name is
\* "absent" and instance_id is None when the input has no such key.
CvtAnn(id, image_id, category_id, category_name, instance_id, seg) ==
    [id |-> id, image_id |-> image_id, category_id |-> category_id,
     category_name |-> category_name, instance_id |-> instance_id,
     segmentation |-> seg]

Category(id, name) == [id |-> id, name |-> name, supercategory |-> "absent"]

\* get_supercategory: the lookup table, '' for a name it does not hold.
get_supercategory(category_name) ==
    CASE category_name \in {"Quadruped Head", "Quadruped Body",
                            "Quadruped Foot", "Quadruped Tail"} -> "Quadruped"
      [] category_name \in {"Biped Head", "Biped Body", "Biped Arm",
                            "Biped Leg", "Biped Tail"} -> "Biped"
      [] category_name \in {"Fish Head", "Fish Body", "Fish Fin",
                            "Fish Tail"} -> "Fish"
      [] category_name \in {"Bird Head", "Bird Body", "Bird Wing",
                            "Bird Foot", "Bird Tail"} -> "Bird"
      [] category_name \in {"Snake Head", "Snake Body"} -> "Snake"
      [] category_name \in {"Reptile Head", "Reptile Body", "Reptile Foot",
                            "Reptile Tail"} -> "Reptile"
      [] category_name \in {"Car Body", "Car Tire", "Car Side Mirror"} -> "Car"
      [] category_name \in {"Bicycle Body", "Bicycle Head", "Bicycle Seat",
                            "Bicycle Tire"} -> "Bicycle"
      [] category_name \in {"Boat Body", "Boat Sail"} -> "Boat"
      [] category_name \in {"Aeroplane Head", "Aeroplane Body",
                            "Aeroplane Engine", "Aeroplane Wing",
                            "Aeroplane Tail"} -> "Aeroplane"
      [] category_name \in {"Bottle Mouth", "Bottle Body"} -> "Bottle"
      [] OTHER -> ""

\* category_id_to_name.get(category_id, 'Unknown')
CategoryName(categories, category_id) ==
    IF \E i \in 1..Len(categories) : categories[i].id = category_id
    THEN LET last == CHOOSE i \in 1..Len(categories) :
                        /\ categories[i].id = category_id
                        /\ \A j \in (i + 1)..Len(categories) :
                              categories[j].id # category_id
         IN  categories[last].name
    ELSE "Unknown"

\* PIL Image.new('L', (width, height)) turned into a numpy array: its
\* shape is (height, width).
MaskShape(size) == <<size[2], size[1]>>

\* mask_utils.encode(mask): size is the mask's shape, counts are bytes.
mask_utils_encode(shape) == [size |-> shape, counts |-> "bytes"]

\* polygon_to_rle that hands PIL (height, width).
cvt_polygon_to_rle_swapped(segmentation, width, height) ==
    IF segmentation.k # "list" \/ segmentation.poly = "empty" THEN SegNone
    ELSE IF segmentation.poly \in {"polys", "flat"}
    THEN LET rle == mask_utils_encode(MaskShape(<<height, width>>))
         IN  Seg("dict", {"size", "counts"}, rle.size,
                 DecodeCounts(rle.counts), "na")
    ELSE SegNone

\* polygon_to_rle(segmentation, width, height): a list of polygons or one
\* flat polygon is drawn on a (width, height) image and encoded; a flat
\* list of odd length raises inside the try, anything else is unsupported:
\* both return None (SegNone).
cvt_polygon_to_rle(segmentation, width, height) ==
    IF segmentation.k # "list" \/ segmentation.poly = "empty" THEN SegNone
    ELSE IF segmentation.poly \in {"polys", "flat"}
    THEN LET rle == mask_utils_encode(MaskShape(<<width, height>>))
         IN  Seg("dict", {"size", "counts"}, rle.size,
                 DecodeCounts(rle.counts), "na")
    ELSE SegNone

\* Python truthiness of a segmentation value.
Truthy(seg) ==
    CASE seg.k = "null" -> FALSE
      [] seg.k = "dict" -> seg.has # {}
      [] seg.k = "list" -> seg.poly # "empty"
      [] OTHER -> TRUE

\* image_category_instances[image_id][category_id]: the positions, in file
\* order, of the annotations of one image and category.
CvtGroup(anns, image_id, category_id) ==
    KeptIndices([k \in 1..Len(anns) |->
                    anns[k].image_id = image_id
                    /\ anns[k].category_id = category_id], Len(anns))

\* The 1-based place of the first element of q satisfying hit.
RECURSIVE FirstPlace(_, _, _)
FirstPlace(q, hit, p) ==
    IF p > Len(q) THEN 0
    ELSE IF hit[q[p]] THEN p ELSE FirstPlace(q, hit, p + 1)

\* The instance index taken from the annotation's position in the file.
cvt_instance_index_by_position(anns, j) ==
    LET group == CvtGroup(anns, anns[j].image_id, anns[j].category_id)
    IN  FirstPlace(group, [k \in 1..Len(anns) |-> k = j], 1)

\* instances_in_this_image_category.index(ann) + 1: list.index returns the
\* first element that is the annotation or compares equal to it, the
\* annotations being as the loop has left them so far.
cvt_instance_index(anns, j) ==
    LET group == CvtGroup(anns, anns[j].image_id, anns[j].category_id)
    IN  FirstPlace(group, [k \in 1..Len(anns) |-> k = j \/ anns[k] = anns[j]], 1)

\* The loop body on annotation j of anns (the list as mutated so far):
\* the list after it, what it counted, and whether a KeyError ended the run.
CvtStep(anns, j, images, categories) ==
    LET a == anns[j]
        same == [anns |-> anns, converted |-> 0, skipped |-> 0, error |-> 0,
                 raised |-> FALSE]
    IN  IF ~InImages(images, a.image_id)
        THEN IF a.category_name = "absent" \/ a.instance_id.t = "null"
             THEN [same EXCEPT !.raised = TRUE]
             ELSE [same EXCEPT !.error = 1]
        ELSE LET img == ImageOf(images, a.image_id)
                 named == [anns EXCEPT ![j].category_name =
                              CategoryName(categories, a.category_id)]
                 idx == cvt_instance_index(named, j)
                 numbered == [named EXCEPT ![j].instance_id = I(idx)]
                 seg == a.segmentation
                 out == [same EXCEPT !.anns = numbered]
             IN  IF ~Truthy(seg) THEN [out EXCEPT !.error = 1]
                 ELSE IF seg.k = "dict" /\ "counts" \in seg.has
                 THEN [out EXCEPT !.skipped = 1]
                 ELSE IF seg.k = "list"
                 THEN LET rle == cvt_polygon_to_rle(seg, img.width, img.height)
                      IN  IF rle # SegNone
                          THEN [out EXCEPT !.anns[j].segmentation = rle,
                                           !.converted = 1]
                          ELSE [out EXCEPT !.error = 1]
                 ELSE [out EXCEPT !.error = 1]

\* The loop over data['annotations'] from annotation j on.
RECURSIVE CvtLoop(_, _, _, _, _)
CvtLoop(acc, j, n, images, categories) ==
    IF j > n \/ acc.raised THEN acc
    ELSE LET r == CvtStep(acc.anns, j, images, categories)
         IN  CvtLoop([anns |-> r.anns,
                      converted |-> acc.converted + r.converted,
                      skipped |-> acc.skipped + r.skipped,
                      error |-> acc.error + r.error,
                      raised |-> r.raised],
                     j + 1, n, images, categories)

\* A loop that leaves out of the list the annotations it counted as errors.
CvtWrittenDroppingErrors(input, final) ==
    LET n == Len(final)
        keep == KeptIndices([k \in 1..n |->
                    /\ final[k].instance_id.t # "null"
                    /\ InImages(cvt.images, final[k].image_id)
                    /\ final[k].segmentation.k = "dict"
                    /\ "counts" \in final[k].segmentation.has], n)
    IN  [m \in 1..Len(keep) |-> [final[keep[m]] EXCEPT !.id = m]]

\* data['annotations'] as json.dump writes it: the list the loop mutated in
\* place, every annotation still in it.
CvtWritten(input, final) == final

\* convert_cvat_to_rle(input_file): metadata, supercategories, the loop,
\* then the save.  A KeyError in the loop leaves the function before
\* the save: no output file.
CvtConvert ==
    /\ cvt.pc = "loaded"
    /\ LET cats == [i \in 1..Len(cvt.categories) |->
                      [cvt.categories[i] EXCEPT
                          !.supercategory = get_supercategory(cvt.categories[i].name)]]
           r == CvtLoop([anns |-> cvt.annotations, converted |-> 0,
                         skipped |-> 0, error |-> 0, raised |-> FALSE],
                        1, Len(cvt.annotations), cvt.images, cats)
       IN  IF r.raised
           THEN cvt' = [cvt EXCEPT !.pc = "raised"]
           ELSE cvt' = [cvt EXCEPT
                          !.pc = "saved",
                          !.out_categories = cats,
                          !.written = CvtWritten(cvt.annotations, r.anns),
                          !.converted_count = r.converted,
                          !.skipped_count = r.skipped,
                          !.error_count = r.error]
    /\ UNCHANGED <<fix, spl, dl, arch, mrg, apr, exp, api, agr, crt, chk>>

MaxCvtAnns == 3

CvtImages == <<Image(I(1), 2, 3)>>

CvtCategories ==
    <<Category(1, "Quadruped Foot"), Category(2, "Quadruped Head")>>

\* The annotations of the input file: polygons of two categories of one
\* image, annotations a former run already filled in, annotations of an
\* image the file does not list, every kind of unusable segmentation and an
\* unknown category.
CvtAnnShapes ==
    { CvtAnn(1, I(1), 1, "absent", None, SegPoly("polys")),
      CvtAnn(2, I(1), 1, "absent", None, SegPoly("polys")),
      CvtAnn(3, I(1), 2, "absent", None, SegPoly("polys")),
      CvtAnn(1, I(1), 1, "Quadruped Foot", I(1), SegRLE(2, 3)),
      CvtAnn(2, I(1), 1, "Quadruped Foot", I(2), SegRLE(2, 3)),
      CvtAnn(1, I(9), 1, "Quadruped Foot", I(1), SegRLE(2, 3)),
      CvtAnn(3, I(9), 1, "Quadruped Foot", I(3), SegPoly("polys")),
      CvtAnn(2, I(9), 1, "absent", None, SegPoly("polys")),
      CvtAnn(2, I(1), 1, "absent", None, SegNone),
      CvtAnn(2, I(1), 1, "absent", None, SegOther),
      CvtAnn(2, I(1), 1, "absent", None, SegEmptyDict),
      CvtAnn(2, I(1), 1, "absent", None, SegPoly("flat_odd")),
      CvtAnn(2, I(1), 2, "absent", None, SegPoly("flat")),
      CvtAnn(3, I(1), 5, "absent", None, SegPoly("polys")) }

CvtInit ==
    /\ cvt \in {[pc |-> "loaded", images |-> CvtImages,
                 categories |-> CvtCategories, annotations |-> a,
                 out_categories |-> <<>>, written |-> <<>>,
                 converted_count |-> 0, skipped_count |-> 0,
                 error_count |-> 0] :
                   a \in SeqsUpTo(CvtAnnShapes, MaxCvtAnns)}
    /\ fix = Off /\ spl = Off /\ dl = Off /\ arch = Off
    /\ mrg = Off /\ apr = Off /\ exp = Off /\ api = Off /\ agr = Off /\ crt = Off /\ chk = Off

CvtNext == CvtConvert

SpecConvert == CvtInit /\ [][CvtNext]_vars

\* Either converter, run on its own.
SpecConverters == (FixInit \/ CvtInit) /\ [][FixMain \/ CvtConvert]_vars

(***************************************************************************)
(* src/CVAT/create_archive_dataset.py                                      *)
(***************************************************************************)

\* max_items: 150 images per archive.
MaxItems == 150

\* max_retries of download_image.
MaxRetries == 3

Min(a, b) == IF a < b THEN a ELSE b

\* An image of the COCO file.  Its file_name is a URL, of which the model
\* keeps whether it is there at all and which of '/train/', '/val/',
\* '/test/' it contains.
ArchImage(id, present, marks) ==
    [id |-> id, url |-> [present |-> present, marks |-> marks]]

ArchAnn(id, image_id) == [id |-> id, image_id |-> image_id]

extract_split_from_url(url) ==
    IF "/train/" \in url.marks THEN "train"
    ELSE IF "/val/" \in url.marks THEN "val"
    ELSE IF "/test/" \in url.marks THEN "test"
    ELSE "unknown"

\* The elements of q, in order, at the positions where keep holds.
Filter(q, keep) ==
    LET idx == KeptIndices(keep, Len(q))
    IN  [m \in 1..Len(idx) |-> q[idx[m]]]

\* train_images / val_images / test_images: the images with a file_name,
\* by the split of their URL; an unknown split goes to train.  Each copy
\* keeps its URL as _original_url.
OrganizedImages(images, split_name) ==
    Filter(images,
           [k \in 1..Len(images) |->
               /\ images[k].url.present
               /\ LET sp == extract_split_from_url(images[k].url)
                  IN  IF split_name = "train" THEN sp \in {"train", "unknown"}
                      ELSE sp = split_name])

\* The annotations whose image_id is the id of one of the images.
AnnotationsOf(annotations, images) ==
    Filter(annotations,
           [k \in 1..Len(annotations) |->
               \E m \in 1..Len(images) : images[m].id = annotations[k].image_id])

\* split_large_dataset with the number of chunks rounded down.
split_large_dataset_floor(split_images, split_annotations, max_items) ==
    IF Len(split_images) <= max_items
    THEN << [images |-> split_images, annotations |-> split_annotations,
             index |-> None] >>
    ELSE LET num_chunks == Len(split_images) \div max_items
         IN  [c \in 1..num_chunks |->
                LET start_idx == (c - 1) * max_items
                    end_idx == Min(c * max_items, Len(split_images))
                    chunk_images == SubSeq(split_images, start_idx + 1, end_idx)
                IN  [images |-> chunk_images,
                     annotations |-> AnnotationsOf(split_annotations, chunk_images),
                     index |-> I(c - 1)]]

\* split_large_dataset(split_images, split_annotations, max_items): the list
\* of (chunk_images, chunk_annotations, chunk_index).
split_large_dataset(split_images, split_annotations, max_items) ==
    IF Len(split_images) <= max_items
    THEN << [images |-> split_images, annotations |-> split_annotations,
             index |-> None] >>
    ELSE LET num_chunks == (Len(split_images) + max_items - 1) \div max_items
         IN  [c \in 1..num_chunks |->
                LET start_idx == (c - 1) * max_items
                    end_idx == Min(c * max_items, Len(split_images))
                    chunk_images == SubSeq(split_images, start_idx + 1, end_idx)
                IN  [images |-> chunk_images,
                     annotations |-> AnnotationsOf(split_annotations, chunk_images),
                     index |-> I(c - 1)]]

\* A call of split_large_dataset as create_archive_dataset makes it.
SplitCall ==
    /\ spl.pc = "called"
    /\ spl' = [spl EXCEPT
                 !.pc = "returned",
                 !.chunks = split_large_dataset(spl.split_images,
                                                spl.split_annotations, MaxItems)]
    /\ UNCHANGED <<fix, cvt, dl, arch, mrg, apr, exp, api, agr, crt, chk>>

\* The longest split the model draws.
MaxSplitImages == 302

\* n images with the ids 1..n, all of the train split.
TrainImages(n) == [k \in 1..n |-> ArchImage(k, TRUE, {"/train/"})]

SplitInit ==
    /\ spl \in {[pc |-> "called", split_images |-> TrainImages(n),
                 split_annotations |-> a, chunks |-> <<>>] :
                   n \in 0..MaxSplitImages,
                   a \in {<<>>, <<ArchAnn(1, 1)>>,
                          <<ArchAnn(1, MaxItems + 1), ArchAnn(2, 1),
                            ArchAnn(3, MaxItems + 1)>>}}
    /\ fix = Off /\ cvt = Off /\ dl = Off /\ arch = Off
    /\ mrg = Off /\ apr = Off /\ exp = Off /\ api = Off /\ agr = Off /\ crt = Off /\ chk = Off

SplitNext == SplitCall

SpecSplit == SplitInit /\ [][SplitNext]_vars

\* No download_image call made yet.
DlIdle ==
    [pc |-> "idle", attempt |-> 0, attempts |-> 0, failed |-> 0, sleeps |-> 0,
     result |-> "none"]

\* The most failing attempts the network makes in one run.
MaxFailedAttempts == 4

\* An attempt of download_image goes through (get, raise_for_status, the
\* copy to the file): return True.
DlAttemptOk ==
    /\ dl.pc = "try"
    /\ dl' = [dl EXCEPT !.pc = "returned", !.attempts = @ + 1, !.result = "True"]
    /\ UNCHANGED <<fix, cvt, spl, arch, mrg, apr, exp, api, agr, crt, chk>>

\* A failing attempt after which download_image sleeps and tries again
\* whatever the number of the attempt.
DlAttemptFailAlwaysRetries ==
    /\ dl.pc = "try"
    /\ arch.failed_attempts < MaxFailedAttempts
    /\ arch' = [arch EXCEPT !.failed_attempts = @ + 1]
    /\ dl' = [dl EXCEPT !.pc = "sleep", !.attempts = @ + 1, !.failed = @ + 1]
    /\ UNCHANGED <<fix, cvt, spl, mrg, apr, exp, api, agr, crt, chk>>

\* An attempt raises: before the last attempt the handler prints and goes
\* to sleep, at the last attempt it returns False.
DlAttemptFail ==
    /\ dl.pc = "try"
    /\ arch.failed_attempts < MaxFailedAttempts
    /\ arch' = [arch EXCEPT !.failed_attempts = @ + 1]
    /\ IF dl.attempt < MaxRetries - 1
       THEN dl' = [dl EXCEPT !.pc = "sleep", !.attempts = @ + 1, !.failed = @ + 1]
       ELSE dl' = [dl EXCEPT !.pc = "returned", !.attempts = @ + 1,
                             !.failed = @ + 1, !.result = "False"]
    /\ UNCHANGED <<fix, cvt, spl, mrg, apr, exp, api, agr, crt, chk>>

\* time.sleep(1), then the next turn of the loop.
DlSleep ==
    /\ dl.pc = "sleep"
    /\ dl' = [dl EXCEPT !.pc = "try", !.sleeps = @ + 1, !.attempt = @ + 1]
    /\ UNCHANGED <<fix, cvt, spl, arch, mrg, apr, exp, api, agr, crt, chk>>

\* create_archive_dataset: the images are organized by split and
\* splits_to_process is set (one split with --split, else all three).
ArchOrganize ==
    /\ arch.pc = "loaded"
    /\ arch' = [arch EXCEPT
                  !.pc = "splits",
                  !.queue = IF arch.split_filter = "none"
                            THEN <<"train", "val", "test">>
                            ELSE <<arch.split_filter>>]
    /\ UNCHANGED <<fix, cvt, spl, dl, mrg, apr, exp, api, agr, crt, chk>>

\* The next split: skipped when it has no image, else cut into chunks.
ArchBeginSplit ==
    /\ arch.pc = "splits"
    /\ arch.queue # <<>>
    /\ LET split_name == Head(arch.queue)
           split_images == OrganizedImages(arch.coco_images, split_name)
           split_annotations == AnnotationsOf(arch.coco_annotations, split_images)
       IN  IF split_images = <<>>
           THEN arch' = [arch EXCEPT !.queue = Tail(@)]
           ELSE arch' = [arch EXCEPT
                           !.queue = Tail(@),
                           !.pc = "images",
                           !.split = split_name,
                           !.chunks = split_large_dataset(split_images,
                                          split_annotations, MaxItems),
                           !.chunk = 1, !.i = 1,
                           !.chunk_successful = 0, !.chunk_failed = 0]
    /\ UNCHANGED <<fix, cvt, spl, dl, mrg, apr, exp, api, agr, crt, chk>>

\* The image is already in the archive directory: counted as successful.
ArchImageExists ==
    /\ arch.pc = "images"
    /\ arch.i <= Len(arch.chunks[arch.chunk].images)
    /\ arch' = [arch EXCEPT !.i = @ + 1, !.chunk_successful = @ + 1]
    /\ UNCHANGED <<fix, cvt, spl, dl, mrg, apr, exp, api, agr, crt, chk>>

\* The image is not there: download_image(original_url, output_path).
ArchDownloadCall ==
    /\ arch.pc = "images"
    /\ arch.i <= Len(arch.chunks[arch.chunk].images)
    /\ arch' = [arch EXCEPT !.pc = "download"]
    /\ dl' = [DlIdle EXCEPT !.pc = "try"]
    /\ UNCHANGED <<fix, cvt, spl, mrg, apr, exp, api, agr, crt, chk>>

\* A download that returned False ends the chunk's loop.
ArchDownloadReturnStopsOnFailure ==
    /\ arch.pc = "download"
    /\ dl.pc = "returned"
    /\ IF dl.result = "True"
       THEN arch' = [arch EXCEPT !.pc = "images", !.i = @ + 1,
                                 !.chunk_successful = @ + 1]
       ELSE arch' = [arch EXCEPT !.pc = "images",
                                 !.i = Len(arch.chunks[arch.chunk].images) + 1,
                                 !.chunk_failed = @ + 1]
    /\ dl' = DlIdle
    /\ UNCHANGED <<fix, cvt, spl, mrg, apr, exp, api, agr, crt, chk>>

\* download_image returned: one more successful or one more failed image,
\* and the loop goes on with the next image.
ArchDownloadReturn ==
    /\ arch.pc = "download"
    /\ dl.pc = "returned"
    /\ IF dl.result = "True"
       THEN arch' = [arch EXCEPT !.pc = "images", !.i = @ + 1,
                                 !.chunk_successful = @ + 1]
       ELSE arch' = [arch EXCEPT !.pc = "images", !.i = @ + 1,
                                 !.chunk_failed = @ + 1]
    /\ dl' = DlIdle
    /\ UNCHANGED <<fix, cvt, spl, mrg, apr, exp, api, agr, crt, chk>>

\* After the last image of the chunk: the totals, the chunk's annotation
\* file (its images and annotations), the archive's record; then the next
\* chunk, or the next split.
ArchFinishChunk ==
    /\ arch.pc = "images"
    /\ arch.i > Len(arch.chunks[arch.chunk].images)
    /\ LET ch == arch.chunks[arch.chunk]
           archive_info == [split |-> arch.split, chunk_idx |-> ch.index,
                            images |-> arch.chunk_successful,
                            images_failed |-> arch.chunk_failed,
                            annotations |-> Len(ch.annotations)]
           annotation_file == [split |-> arch.split, chunk_idx |-> ch.index,
                               images |-> [m \in 1..Len(ch.images) |-> ch.images[m].id],
                               annotations |-> ch.annotations]
           more == arch.chunk < Len(arch.chunks)
       IN  arch' = [arch EXCEPT
                      !.total_successful = @ + arch.chunk_successful,
                      !.total_failed = @ + arch.chunk_failed,
                      !.archives = Append(@, archive_info),
                      !.files = Append(@, annotation_file),
                      !.pc = IF more THEN "images" ELSE "splits",
                      !.chunk = IF more THEN @ + 1 ELSE @,
                      !.i = 1,
                      !.chunk_successful = 0, !.chunk_failed = 0]
    /\ UNCHANGED <<fix, cvt, spl, dl, mrg, apr, exp, api, agr, crt, chk>>

\* Every split done: the result with the archives and the two totals.
ArchReturn ==
    /\ arch.pc = "splits"
    /\ arch.queue = <<>>
    /\ arch' = [arch EXCEPT
                  !.pc = "returned",
                  !.result = [archives |-> arch.archives,
                              images_downloaded |-> arch.total_successful,
                              images_failed |-> arch.total_failed,
                              total_images |-> Len(arch.coco_images)]]
    /\ UNCHANGED <<fix, cvt, spl, dl, mrg, apr, exp, api, agr, crt, chk>>

\* The train split of the COCO files the model draws has from
\* MaxItems - 1 to MaxItems + ArchExtra images.
ArchExtra == 2

\* What follows the train images in the file: nothing, a val image, or a
\* val image, a test image, an image of no known split and one with no
\* file_name.
ArchTails ==
    { <<>>,
      <<ArchImage(1001, TRUE, {"/val/"})>>,
      <<ArchImage(1001, TRUE, {"/val/"}), ArchImage(1002, TRUE, {"/test/"}),
        ArchImage(1003, TRUE, {}), ArchImage(1004, FALSE, {})>> }

ArchInit ==
    /\ arch \in {[pc |-> "loaded", coco_images |-> TrainImages(n) \o tail,
                  coco_annotations |-> <<ArchAnn(1, 1), ArchAnn(2, MaxItems + 1),
                                         ArchAnn(3, 1001), ArchAnn(4, 1)>>,
                  split_filter |-> f, queue |-> <<>>, split |-> "none",
                  chunks |-> <<>>, chunk |-> 0, i |-> 0,
                  chunk_successful |-> 0, chunk_failed |-> 0,
                  total_successful |-> 0, total_failed |-> 0,
                  archives |-> <<>>, files |-> <<>>, failed_attempts |-> 0,
                  result |-> [archives |-> <<>>, images_downloaded |-> 0,
                              images_failed |-> 0, total_images |-> 0]] :
                    n \in (MaxItems - 1)..(MaxItems + ArchExtra),
                    tail \in ArchTails, f \in {"none", "val"}}
    /\ dl = DlIdle
    /\ fix = Off /\ cvt = Off /\ spl = Off
    /\ mrg = Off /\ apr = Off /\ exp = Off /\ api = Off /\ agr = Off /\ crt = Off /\ chk = Off

ArchNext ==
    \/ ArchOrganize
    \/ ArchBeginSplit
    \/ ArchImageExists
    \/ ArchDownloadCall
    \/ DlAttemptOk
    \/ DlAttemptFail
    \/ DlSleep
    \/ ArchDownloadReturn
    \/ ArchFinishChunk
    \/ ArchReturn

SpecArchive == ArchInit /\ [][ArchNext]_vars

(***************************************************************************)
(* src/CVAT/merged/merge_to_spin2.py                                       *)
(***************************************************************************)

\* A key that a JSON object does not have.
AbsentId == 0 - 1
Absent == "absent"

\* An annotation object, of the input file or of a spin2 file, by the keys
\* the script reads or writes.
MergeAnn(id, annotation_id, split, label, category_name) ==
    [id |-> id, annotation_id |-> annotation_id, split |-> split,
     label |-> label, category_name |-> category_name]

\* ann.get('split', 'unknown').lower(); "null" stands for a JSON null, on
\* which .lower() raises.
lower(split) ==
    IF split = Absent THEN "unknown"
    ELSE IF split = "TRAIN" THEN "train"
    ELSE split

\* annotations_by_split: the keys in the order of their first appearance.
RECURSIVE SplitOrder(_)
SplitOrder(anns) ==
    IF anns = <<>> THEN <<>>
    ELSE LET rest == SplitOrder(SubSeq(anns, 1, Len(anns) - 1))
             sp == lower(anns[Len(anns)].split)
         IN  IF \E k \in 1..Len(rest) : rest[k] = sp THEN rest
             ELSE Append(rest, sp)

\* annotations_by_split[split].
AnnotationsBySplit(anns, split) ==
    Filter(anns, [k \in 1..Len(anns) |-> lower(anns[k].split) = split])

\* The splits that have a spin2 file name.
Spin2Splits == {"train", "test", "val"}

\* A lookup by position in the file: the ann_id-th annotation.
spin2_ann_lookup_by_position(spin2_annotations, ann_id) ==
    IF ann_id \in 1..Len(spin2_annotations) THEN ann_id ELSE 0

\* spin2_ann_lookup: the last index holding each id that is not None.
spin2_ann_lookup(spin2_annotations, ann_id) ==
    LET at == {k \in 1..Len(spin2_annotations) :
                  spin2_annotations[k].id = ann_id /\ ann_id # AbsentId}
    IN  IF at = {} THEN 0 ELSE CHOOSE k \in at : \A j \in at : j <= k

\* for key, value in input_ann.items(): original_ann[key] = value, then
\* category_name.
MergeInto(original_ann, input_ann, category_name) ==
    [id |-> IF input_ann.id # AbsentId THEN input_ann.id ELSE original_ann.id,
     annotation_id |-> IF input_ann.annotation_id # AbsentId
                       THEN input_ann.annotation_id ELSE original_ann.annotation_id,
     split |-> IF input_ann.split # Absent THEN input_ann.split ELSE original_ann.split,
     label |-> IF input_ann.label # Absent THEN input_ann.label ELSE original_ann.label,
     category_name |-> category_name]

\* The match-and-update loop over input_anns from the k-th on: the spin2
\* annotations and the statistics of the split.  The lookup is built once,
\* from the file as loaded.
RECURSIVE MergeLoop(_, _, _, _, _, _)
MergeLoop(loaded, anns, st, input_anns, k, category_name) ==
    IF k > Len(input_anns) THEN [annotations |-> anns, stats |-> st]
    ELSE LET input_ann == input_anns[k]
             ann_id == input_ann.annotation_id
             idx == spin2_ann_lookup(loaded, ann_id)
         IN  IF ann_id = AbsentId
             THEN MergeLoop(loaded, anns, st, input_anns, k + 1, category_name)
             ELSE IF idx # 0
             THEN MergeLoop(loaded,
                            [anns EXCEPT ![idx] = MergeInto(@, input_ann, category_name)],
                            [st EXCEPT !.matched = @ + 1, !.updated = @ + 1],
                            input_anns, k + 1, category_name)
             ELSE MergeLoop(loaded, anns, [st EXCEPT !.not_found = @ + 1],
                            input_anns, k + 1, category_name)

\* A file of the spin2 directory: whether it exists, whether what it holds
\* is a whole JSON document, and the annotations written in it.  'images'
\* and 'categories' are the other keys of the document.
Spin2File(exists, complete, annotations) ==
    [exists |-> exists, complete |-> complete, images |-> <<>>,
     categories |-> <<>>, annotations |-> annotations]

\* A whole spin2 document with its images and categories.
Spin2Data(images, categories, annotations) ==
    [Spin2File(TRUE, TRUE, annotations) EXCEPT !.images = images,
                                               !.categories = categories]

ZeroStats == [matched |-> 0, updated |-> 0, not_found |-> 0]

\* The number of times the script is run on one spin2 directory.
MaxMergeRuns == 2

\* The input file is loaded and its annotations grouped by split.
MergeLoad ==
    /\ mrg.pc = "start"
    /\ IF \E k \in 1..Len(mrg.input) : mrg.input[k].split = "null"
       THEN mrg' = [mrg EXCEPT !.pc = "raised", !.exit = 1]
       ELSE mrg' = [mrg EXCEPT !.pc = "splits", !.queue = SplitOrder(mrg.input)]
    /\ UNCHANGED <<fix, cvt, spl, dl, arch, apr, exp, api, agr, crt, chk>>

\* A split with no spin2 file name, or whose spin2 file is not there.
MergeSkipSplit ==
    /\ mrg.pc = "splits"
    /\ mrg.queue # <<>>
    /\ LET split == Head(mrg.queue)
       IN  IF split \in Spin2Splits THEN ~mrg.disk[split].exists ELSE TRUE
    /\ mrg' = [mrg EXCEPT !.queue = Tail(@)]
    /\ UNCHANGED <<fix, cvt, spl, dl, arch, apr, exp, api, agr, crt, chk>>

\* The spin2 file of the split is loaded and updated in memory.
MergeUpdateSplit ==
    /\ mrg.pc = "splits"
    /\ mrg.queue # <<>>
    /\ LET split == Head(mrg.queue)
       IN  /\ split \in Spin2Splits
           /\ mrg.disk[split].exists
           /\ LET loaded == mrg.disk[split].annotations
                  r == MergeLoop(loaded, loaded, mrg.stats[split],
                                 AnnotationsBySplit(mrg.input, split), 1,
                                 mrg.category_name)
              IN  mrg' = [mrg EXCEPT !.pc = "save", !.split = split,
                                     !.spin2_data = mrg.disk[split],
                                     !.spin2_annotations = r.annotations,
                                     !.stats[split] = r.stats]
    /\ UNCHANGED <<fix, cvt, spl, dl, arch, apr, exp, api, agr, crt, chk>>

\* open(spin2_file, 'w'): the file is emptied.
MergeOpen ==
    /\ mrg.pc = "save"
    /\ mrg' = [mrg EXCEPT !.pc = "dump",
                          !.rewritten = @ \cup {mrg.split},
                          !.disk[mrg.split] = Spin2File(TRUE, FALSE, <<>>)]
    /\ UNCHANGED <<fix, cvt, spl, dl, arch, apr, exp, api, agr, crt, chk>>

\* json.dump writes the document piece by piece: the next annotation.
MergeDump ==
    /\ mrg.pc = "dump"
    /\ Len(mrg.disk[mrg.split].annotations) < Len(mrg.spin2_annotations)
    /\ mrg' = [mrg EXCEPT
                 !.disk[mrg.split].annotations =
                     Append(@, mrg.spin2_annotations[Len(@) + 1])]
    /\ UNCHANGED <<fix, cvt, spl, dl, arch, apr, exp, api, agr, crt, chk>>

\* The rest of spin2_data is written and the file closed; the loop goes to
\* the next split.
MergeClose ==
    /\ mrg.pc = "dump"
    /\ Len(mrg.disk[mrg.split].annotations) = Len(mrg.spin2_annotations)
    /\ mrg' = [mrg EXCEPT !.pc = "splits", !.queue = Tail(@),
                          !.disk[mrg.split].images = mrg.spin2_data.images,
                          !.disk[mrg.split].categories = mrg.spin2_data.categories,
                          !.disk[mrg.split].complete = TRUE]
    /\ UNCHANGED <<fix, cvt, spl, dl, arch, apr, exp, api, agr, crt, chk>>

\* Every split done: main returns 0.
MergeReturn ==
    /\ mrg.pc = "splits"
    /\ mrg.queue = <<>>
    /\ mrg' = [mrg EXCEPT !.pc = "done", !.exit = 0]
    /\ UNCHANGED <<fix, cvt, spl, dl, arch, apr, exp, api, agr, crt, chk>>

\* The process is interrupted (a signal, a kill) wherever it is.
MergeInterrupt ==
    /\ mrg.pc \in {"start", "splits", "save", "dump"}
    /\ mrg' = [mrg EXCEPT !.pc = "interrupted"]
    /\ UNCHANGED <<fix, cvt, spl, dl, arch, apr, exp, api, agr, crt, chk>>

\* The script is run again with the same --category and --input, on the
\* spin2 directory the former run left.
MergeRerun ==
    /\ mrg.pc = "done"
    /\ mrg.runs < MaxMergeRuns
    /\ mrg' = [mrg EXCEPT
                 !.pc = "start", !.runs = @ + 1, !.before = mrg.disk,
                 !.first = IF mrg.runs = 1
                           THEN [disk |-> mrg.disk, stats |-> mrg.stats]
                           ELSE @,
                 !.queue = <<>>, !.split = "none", !.rewritten = {},
                 !.spin2_data = Spin2File(FALSE, FALSE, <<>>),
                 !.spin2_annotations = <<>>,
                 !.stats = [train |-> ZeroStats, test |-> ZeroStats,
                            val |-> ZeroStats],
                 !.exit = AbsentId]
    /\ UNCHANGED <<fix, cvt, spl, dl, arch, apr, exp, api, agr, crt, chk>>

\* The longest input file the model draws.
MaxMergeAnns == 2

\* Annotations of the input file.
MergeInputShapes ==
    { MergeAnn(AbsentId, 1, "train", "new", Absent),
      MergeAnn(AbsentId, 2, "TRAIN", "new", Absent),
      MergeAnn(AbsentId, 1, "val", "new", Absent),
      MergeAnn(AbsentId, 1, "test", "new", Absent),
      MergeAnn(AbsentId, 7, "train", "new", Absent),
      MergeAnn(AbsentId, AbsentId, "train", "new", Absent),
      MergeAnn(AbsentId, 1, Absent, "new", Absent),
      MergeAnn(AbsentId, 1, "dev", "new", Absent),
      MergeAnn(AbsentId, 1, "null", "new", Absent),
      MergeAnn(9, 1, "train", Absent, Absent),
      MergeAnn(0, 1, "train", "new", Absent),
      MergeAnn(1, 2, "train", "new", Absent) }

\* The spin2 directory before the run.  The annotations of the input files
\* are those create_coco_from_agreements writes: 'id' is the counter from 0,
\* 'annotation_id' the id of the spin2 annotation.
Spin2Before ==
    LET old(id) == MergeAnn(id, AbsentId, Absent, "old", Absent)
    IN  { [train |-> Spin2File(TRUE, TRUE, <<old(1), old(2), old(1)>>),
           val |-> Spin2File(TRUE, TRUE, <<old(1)>>),
           test |-> Spin2File(FALSE, FALSE, <<>>)],
          [train |-> Spin2File(TRUE, TRUE, <<old(AbsentId), old(2)>>),
           val |-> Spin2File(FALSE, FALSE, <<>>),
           test |-> Spin2File(TRUE, TRUE, <<>>)],
          [train |-> Spin2Data(<<10, 11>>, <<"BipedArm", "BipedHead">>,
                               <<old(1), old(2), old(3)>>),
           val |-> Spin2Data(<<12>>, <<"BipedArm", "BipedHead">>,
                             <<old(2), old(1)>>),
           test |-> Spin2Data(<<13>>, <<"BipedArm", "BipedHead">>, <<old(1)>>)] }

MergeInit ==
    /\ mrg \in {[pc |-> "start", dry_run |-> d, category_name |-> "BipedArm",
                 input |-> inp, before |-> b, disk |-> b, queue |-> <<>>,
                 runs |-> 1, original |-> b,
                 first |-> [disk |-> b,
                            stats |-> [train |-> ZeroStats, test |-> ZeroStats,
                                       val |-> ZeroStats]],
                 rewritten |-> {},
                 spin2_data |-> Spin2File(FALSE, FALSE, <<>>),
                 split |-> "none", spin2_annotations |-> <<>>,
                 stats |-> [train |-> ZeroStats, test |-> ZeroStats,
                            val |-> ZeroStats],
                 exit |-> AbsentId] :
                   d \in BOOLEAN, b \in Spin2Before,
                   inp \in SeqsUpTo(MergeInputShapes, MaxMergeAnns)}
    /\ fix = Off /\ cvt = Off /\ spl = Off /\ dl = Off /\ arch = Off
    /\ apr = Off /\ exp = Off /\ api = Off /\ agr = Off /\ crt = Off /\ chk = Off

MergeNext ==
    \/ MergeLoad
    \/ MergeSkipSplit
    \/ MergeUpdateSplit
    \/ MergeOpen
    \/ MergeDump
    \/ MergeClose
    \/ MergeReturn
    \/ MergeRerun
    \/ MergeInterrupt

SpecMerge == MergeInit /\ [][MergeNext]_vars

(***************************************************************************)
(* src/CVAT/approve_hits.py                                                *)
(***************************************************************************)

\* The status MTurk gives an assignment after an accepted call.
StatusAfter(op) == IF op = "approve" THEN "Approved" ELSE "Rejected"

\* response['Assignments']: the assignments of the HIT with their status
\* on MTurk; AssignmentId k is the k-th assignment.
ListedAssignments(remote) ==
    [k \in 1..Len(remote) |->
        [AssignmentId |-> k, AssignmentStatus |-> remote[k]]]

\* list_assignments_for_hit answers: the loop starts, or there is nothing
\* to do.
AprList ==
    /\ apr.pc = "start"
    /\ apr' = [apr EXCEPT
                 !.pc = IF apr.remote = <<>> THEN "done" ELSE "loop",
                 !.listed = TRUE,
                 !.assignments = ListedAssignments(apr.remote),
                 !.i = 1]
    /\ UNCHANGED <<fix, cvt, spl, dl, arch, mrg, exp, api, agr, crt, chk>>

\* list_assignments_for_hit raises: the outer handler prints the error.
AprListFail ==
    /\ apr.pc = "start"
    /\ apr' = [apr EXCEPT !.pc = "done", !.printed = @ + 1]
    /\ UNCHANGED <<fix, cvt, spl, dl, arch, mrg, exp, api, agr, crt, chk>>

\* A 'Submitted' assignment: approve_assignment / reject_assignment is
\* called and accepted.
AprCallOk ==
    /\ apr.pc = "loop"
    /\ apr.i <= Len(apr.assignments)
    /\ LET assignment == apr.assignments[apr.i]
       IN  /\ assignment.AssignmentStatus = "Submitted"
           /\ apr' = [apr EXCEPT
                        !.i = @ + 1,
                        !.calls = Append(@, [op |-> apr.op,
                                             AssignmentId |-> assignment.AssignmentId,
                                             ok |-> TRUE]),
                        !.remote[assignment.AssignmentId] = StatusAfter(apr.op)]
    /\ UNCHANGED <<fix, cvt, spl, dl, arch, mrg, exp, api, agr, crt, chk>>

\* A call that raises ends the loop: the remaining assignments are left.
AprCallFailEndsLoop ==
    /\ apr.pc = "loop"
    /\ apr.i <= Len(apr.assignments)
    /\ LET assignment == apr.assignments[apr.i]
       IN  /\ assignment.AssignmentStatus = "Submitted"
           /\ apr' = [apr EXCEPT
                        !.pc = "done",
                        !.calls = Append(@, [op |-> apr.op,
                                             AssignmentId |-> assignment.AssignmentId,
                                             ok |-> FALSE]),
                        !.printed = @ + 1]
    /\ UNCHANGED <<fix, cvt, spl, dl, arch, mrg, exp, api, agr, crt, chk>>

\* A 'Submitted' assignment whose call raises: the inner handler prints the
\* error and the loop goes on.
AprCallFail ==
    /\ apr.pc = "loop"
    /\ apr.i <= Len(apr.assignments)
    /\ LET assignment == apr.assignments[apr.i]
       IN  /\ assignment.AssignmentStatus = "Submitted"
           /\ apr' = [apr EXCEPT
                        !.i = @ + 1,
                        !.calls = Append(@, [op |-> apr.op,
                                             AssignmentId |-> assignment.AssignmentId,
                                             ok |-> FALSE]),
                        !.printed = @ + 1]
    /\ UNCHANGED <<fix, cvt, spl, dl, arch, mrg, exp, api, agr, crt, chk>>

\* An assignment in another status gets the call all the same; MTurk refuses
\* it and the error is printed.
AprSkipReattempts ==
    /\ apr.pc = "loop"
    /\ apr.i <= Len(apr.assignments)
    /\ LET assignment == apr.assignments[apr.i]
       IN  /\ assignment.AssignmentStatus # "Submitted"
           /\ apr' = [apr EXCEPT
                        !.i = @ + 1,
                        !.calls = Append(@, [op |-> apr.op,
                                             AssignmentId |-> assignment.AssignmentId,
                                             ok |-> FALSE]),
                        !.printed = @ + 1]
    /\ UNCHANGED <<fix, cvt, spl, dl, arch, mrg, exp, api, agr, crt, chk>>

\* An assignment in another status: 'Skipped' is printed, no call is made.
AprSkip ==
    /\ apr.pc = "loop"
    /\ apr.i <= Len(apr.assignments)
    /\ apr.assignments[apr.i].AssignmentStatus # "Submitted"
    /\ apr' = [apr EXCEPT !.i = @ + 1, !.skipped = @ + 1]
    /\ UNCHANGED <<fix, cvt, spl, dl, arch, mrg, exp, api, agr, crt, chk>>

\* The loop is over.
AprFinish ==
    /\ apr.pc = "loop"
    /\ apr.i > Len(apr.assignments)
    /\ apr' = [apr EXCEPT !.pc = "done"]
    /\ UNCHANGED <<fix, cvt, spl, dl, arch, mrg, exp, api, agr, crt, chk>>

\* The number of times the operator runs the script on the HIT.
MaxRuns == 2

\* The script is run again on the same HIT record.
AprRerun ==
    /\ apr.pc = "done"
    /\ apr.run < MaxRuns
    /\ \E op \in {"approve", "reject"} :
          apr' = [apr EXCEPT !.pc = "start", !.op = op, !.run = @ + 1,
                             !.listed = FALSE, !.assignments = <<>>, !.i = 0,
                             !.calls = <<>>, !.printed = 0, !.skipped = 0,
                             !.before = apr.remote]
    /\ UNCHANGED <<fix, cvt, spl, dl, arch, mrg, exp, api, agr, crt, chk>>

\* The most assignments the HIT has.
MaxAssignments == 3

AprInit ==
    /\ apr \in {[pc |-> "start", op |-> op, run |-> 1, remote |-> r,
                 before |-> r, listed |-> FALSE, assignments |-> <<>>, i |-> 0,
                 calls |-> <<>>, printed |-> 0, skipped |-> 0] :
                   op \in {"approve", "reject"},
                   r \in SeqsUpTo({"Submitted", "Approved", "Rejected"},
                                  MaxAssignments)}
    /\ fix = Off /\ cvt = Off /\ spl = Off /\ dl = Off /\ arch = Off
    /\ mrg = Off /\ exp = Off /\ api = Off /\ agr = Off /\ crt = Off /\ chk = Off

AprNext ==
    \/ AprList
    \/ AprListFail
    \/ AprCallOk
    \/ AprCallFail
    \/ AprSkip
    \/ AprFinish
    \/ AprRerun

SpecApprove == AprInit /\ [][AprNext]_vars

(***************************************************************************)
(* src/CVAT/expire_hits.py                                                 *)
(***************************************************************************)

\* The MTurk endpoints the script knows.
ENVIRONMENTS == {"live", "sandbox"}

\* What the operator may type at the prompt.
Answers == {"yes", "y", "YES", "Yes", "Y", "no", "N", "", " yes", "yes please"}

\* response.lower().
str_lower(response) ==
    IF response \in {"YES", "Yes"} THEN "yes"
    ELSE IF response = "Y" THEN "y"
    ELSE IF response = "N" THEN "n"
    ELSE response

\* The record file is read: hit_id, environment and category are taken from
\* it.  A file that is missing or lacks a field ends the run in one of the
\* outer handlers.
ExpLoad ==
    /\ exp.pc = "start"
    /\ exp' = [exp EXCEPT !.pc = IF exp.file = "ok" THEN "prompt" ELSE "done"]
    /\ UNCHANGED <<fix, cvt, spl, dl, arch, mrg, apr, api, agr, crt, chk>>

\* input(...): any answer but 'yes' or 'y', in any case, cancels.
ExpAnswer ==
    /\ exp.pc = "prompt"
    /\ \E response \in Answers :
          exp' = [exp EXCEPT
                    !.answer = response,
                    !.pc = IF str_lower(response) \notin {"yes", "y"}
                           THEN "done" ELSE "client"]
    /\ UNCHANGED <<fix, cvt, spl, dl, arch, mrg, apr, api, agr, crt, chk>>

\* get_mturk_client(environment): ENVIRONMENTS[environment] raises KeyError
\* for an environment the script does not know.
ExpClient ==
    /\ exp.pc = "client"
    /\ IF exp.environment \in ENVIRONMENTS
       THEN exp' = [exp EXCEPT !.pc = "get_hit", !.client_created = TRUE]
       ELSE exp' = [exp EXCEPT !.pc = "done"]
    /\ UNCHANGED <<fix, cvt, spl, dl, arch, mrg, apr, api, agr, crt, chk>>

\* get_hit answers and the HIT's status is printed.
ExpGetHitOk ==
    /\ exp.pc = "get_hit"
    /\ exp' = [exp EXCEPT !.pc = "expire",
                          !.calls = Append(@, [name |-> "get_hit", ok |-> TRUE])]
    /\ UNCHANGED <<fix, cvt, spl, dl, arch, mrg, apr, api, agr, crt, chk>>

\* get_hit raises and the run ends there.
ExpGetHitFailEndsRun ==
    /\ exp.pc = "get_hit"
    /\ exp' = [exp EXCEPT !.pc = "done",
                          !.calls = Append(@, [name |-> "get_hit", ok |-> FALSE])]
    /\ UNCHANGED <<fix, cvt, spl, dl, arch, mrg, apr, api, agr, crt, chk>>

\* get_hit raises: the handler prints and the run goes on.
ExpGetHitFail ==
    /\ exp.pc = "get_hit"
    /\ exp' = [exp EXCEPT !.pc = "expire",
                          !.calls = Append(@, [name |-> "get_hit", ok |-> FALSE])]
    /\ UNCHANGED <<fix, cvt, spl, dl, arch, mrg, apr, api, agr, crt, chk>>

\* update_expiration_for_hit(HITId, ExpireAt=0) is accepted.
ExpExpireOk ==
    /\ exp.pc = "expire"
    /\ exp' = [exp EXCEPT
                 !.pc = "done", !.hit_status = "Expired",
                 !.calls = Append(@, [name |-> "update_expiration_for_hit",
                                      ok |-> TRUE])]
    /\ UNCHANGED <<fix, cvt, spl, dl, arch, mrg, apr, api, agr, crt, chk>>

\* update_expiration_for_hit raises: the handler prints.
ExpExpireFail ==
    /\ exp.pc = "expire"
    /\ exp' = [exp EXCEPT
                 !.pc = "done",
                 !.calls = Append(@, [name |-> "update_expiration_for_hit",
                                      ok |-> FALSE])]
    /\ UNCHANGED <<fix, cvt, spl, dl, arch, mrg, apr, api, agr, crt, chk>>

ExpInit ==
    /\ exp \in {[pc |-> "start", file |-> f, environment |-> env,
                 hit_status |-> st, answer |-> "none",
                 client_created |-> FALSE, calls |-> <<>>] :
                   f \in {"ok", "missing", "no mturk_info"},
                   env \in {"live", "sandbox", "staging"},
                   st \in {"Assignable", "Reviewable"}}
    /\ fix = Off /\ cvt = Off /\ spl = Off /\ dl = Off /\ arch = Off
    /\ mrg = Off /\ apr = Off /\ api = Off /\ agr = Off /\ crt = Off /\ chk = Off

ExpNext ==
    \/ ExpLoad
    \/ ExpAnswer
    \/ ExpClient
    \/ ExpGetHitOk
    \/ ExpGetHitFail
    \/ ExpExpireOk
    \/ ExpExpireFail

SpecExpire == ExpInit /\ [][ExpNext]_vars

(***************************************************************************)
(* src/Classcification/backend/main.py                                     *)
(***************************************************************************)

\* The task names the backend accepts.
tasks ==
    {"QualificationTest_parts", "QualificationTest_subparts", "agreeTest",
     "main", "spin_val_parts", "spin_val_subparts", "spin_train_parts",
     "spin_train_subparts", "spin_test_subparts", "spin_test_parts"}

\* raise HTTPException(status_code, detail).
HTTPException(status_code, detail) ==
    [raised |-> TRUE, http |-> TRUE, status_code |-> status_code,
     detail |-> detail, content |-> <<>>]

\* Any other exception (KeyError, TypeError, ...).
OtherException ==
    [raised |-> TRUE, http |-> FALSE, status_code |-> 0, detail |-> "",
     content |-> <<>>]

\* JSONResponse(content): status 200.
JSONResponse(content) ==
    [raised |-> FALSE, http |-> TRUE, status_code |-> 200, detail |-> "",
     content |-> content]

\* A group of a HIT file: its entry ids ("none" when the key is missing)
\* and its annotations, each with its 'result' or without one.
Group(entry_id, annotations) == [entry_id |-> entry_id, annotations |-> annotations]

\* answers: item["result"] when the item has one, else None.
TaskAnswers(annotations) ==
    [k \in 1..Len(annotations) |->
        IF annotations[k].result = Absent THEN "None" ELSE annotations[k].result]

\* The body of the try block of get_task_ids.  fetched.ok is FALSE when
\* requests.get / raise_for_status raised, else fetched.data is the parsed
\* document: the
\* list of groups (review false) or one group, <<>> for an empty one
\* (review true).
get_task_ids_body(task, groupIndex, review, fetched) ==
    IF task \notin tasks
    THEN HTTPException(400, "Invalid task specified")
    ELSE IF ~fetched.ok
    THEN HTTPException(500, "Failed to fetch HIT file")
    ELSE IF ~review /\ (groupIndex < 0 \/ groupIndex >= Len(fetched.data))
    THEN HTTPException(404, "Group index out of range")
    ELSE IF review /\ fetched.data = <<>>
    THEN HTTPException(404, "No data found for the specified group index")
    ELSE LET group_data == IF review THEN fetched.data[1] ELSE fetched.data[groupIndex + 1]
         IN  IF group_data.entry_id = "none"
             THEN OtherException
             ELSE JSONResponse([entry_ids |-> group_data.entry_id,
                                answers |-> TaskAnswers(group_data.annotations)])

\* get_task_ids: whatever the try block raises, an HTTPException included,
\* is caught by 'except Exception' and answered with 500.
get_task_ids(task, groupIndex, review, fetched) ==
    LET r == get_task_ids_body(task, groupIndex, review, fetched)
    IN  IF r.raised
        THEN HTTPException(500, "Internal Server Error")
        ELSE r

\* GET /api/tasks/ is served.
TasksRespond ==
    /\ api.pc = "received"
    /\ api' = [api EXCEPT
                 !.pc = "responded",
                 !.response = get_task_ids(api.task, api.groupIndex, api.review,
                                           api.fetched)]
    /\ UNCHANGED <<fix, cvt, spl, dl, arch, mrg, apr, exp, agr, crt, chk>>

\* The largest groupIndex asked for.
MaxGroupIndex == 2

\* The documents the HIT file URL may answer with.
HitFiles(review) ==
    LET g1 == Group("ids 1", <<[result |-> "yes"], [result |-> Absent]>>)
        g2 == Group("ids 2", <<>>)
        g3 == Group("none", <<>>)
        Fetched(data) == [ok |-> TRUE, data |-> data]
    IN  {[ok |-> FALSE, data |-> <<>>]} \cup
        (IF review THEN {Fetched(<<>>), Fetched(<<g1>>), Fetched(<<g3>>)}
         ELSE {Fetched(<<>>), Fetched(<<g1>>), Fetched(<<g1, g2>>),
               Fetched(<<g3, g1>>)})

TasksInit ==
    /\ api \in {[pc |-> "received", task |-> t, groupIndex |-> g, review |-> r,
                 fetched |-> f, response |-> JSONResponse(<<>>)] :
                   t \in {"main", "spin_val_parts", "bogus", ""},
                   g \in (0 - 1)..MaxGroupIndex,
                   r \in {FALSE},
                   f \in HitFiles(FALSE)}
              \cup
              {[pc |-> "received", task |-> t, groupIndex |-> g, review |-> r,
                 fetched |-> f, response |-> JSONResponse(<<>>)] :
                   t \in {"main", "spin_val_parts", "bogus", ""},
                   g \in (0 - 1)..MaxGroupIndex,
                   r \in {TRUE},
                   f \in HitFiles(TRUE)}
    /\ fix = Off /\ cvt = Off /\ spl = Off /\ dl = Off /\ arch = Off
    /\ mrg = Off /\ apr = Off /\ exp = Off /\ agr = Off /\ crt = Off /\ chk = Off

TasksNext == TasksRespond

SpecTasks == TasksInit /\ [][TasksNext]_vars

\* get_mask: the annotation file a request reads and the entry it takes
\* from it.  The qualification tasks read the spin_val files; only 'main'
\* and 'agreeTest' read a file of the category.
MaskSegmentation(task, category, entry_id) ==
    LET t == IF task = "QualificationTest_parts" THEN "spin_val_parts"
             ELSE IF task = "QualificationTest_subparts" THEN "spin_val_subparts"
             ELSE task
    IN  IF t \in {"main", "agreeTest"}
        THEN [dir |-> "data/spin-instance", category |-> category, task |-> t,
              entry |-> entry_id]
        ELSE [dir |-> "data", category |-> "", task |-> t, entry |-> entry_id]

\* A figure, or a PNG saved from one: the images drawn on it, in order.
Blank == <<>>

\* pyplot's figures, the current one last; gcf() makes a blank one when
\* there is none.
Gcf(figs) == IF figs = <<>> THEN <<Blank>> ELSE figs

\* The request r of the two.
MaskReq(r) == api.reqs[r]

\* The task is checked, the file read, the entry's mask decoded and the
\* RGBA image built.
MaskLoad(r) ==
    /\ api.pc = "mask"
    /\ MaskReq(r).pc = "received"
    /\ IF MaskReq(r).task \notin tasks
       THEN api' = [api EXCEPT
                      !.reqs[r].pc = "sent",
                      !.reqs[r].status_code = 400]
       ELSE api' = [api EXCEPT
                      !.reqs[r].pc = "loaded",
                      !.reqs[r].rgba =
                          <<MaskSegmentation(MaskReq(r).task, MaskReq(r).category,
                                             MaskReq(r).entry_id)>>]
    /\ UNCHANGED <<fix, cvt, spl, dl, arch, mrg, apr, exp, agr, crt, chk>>

\* plt.figure(figsize=(6, 6)): a new figure becomes the current one.
MaskFigure(r) ==
    /\ api.pc = "mask"
    /\ MaskReq(r).pc = "loaded"
    /\ api' = [api EXCEPT !.reqs[r].pc = "figure",
                          !.figs = Append(@, Blank)]
    /\ UNCHANGED <<fix, cvt, spl, dl, arch, mrg, apr, exp, agr, crt, chk>>

\* plt.imshow(rgba): the image is drawn on the current figure.
MaskImshow(r) ==
    /\ api.pc = "mask"
    /\ MaskReq(r).pc = "figure"
    /\ LET figs == Gcf(api.figs)
       IN  api' = [api EXCEPT
                     !.reqs[r].pc = "drawn",
                     !.figs = [figs EXCEPT ![Len(figs)] = @ \o MaskReq(r).rgba]]
    /\ UNCHANGED <<fix, cvt, spl, dl, arch, mrg, apr, exp, agr, crt, chk>>

\* plt.savefig(filename): the current figure is written to
\* images/temp/task/mask_{entry_id}.png.
MaskSavefig(r) ==
    /\ api.pc = "mask"
    /\ MaskReq(r).pc = "drawn"
    /\ LET figs == Gcf(api.figs)
       IN  api' = [api EXCEPT
                     !.reqs[r].pc = "saved",
                     !.figs = figs,
                     !.files[MaskReq(r).entry_id] =
                         [exists |-> TRUE, png |-> figs[Len(figs)]]]
    /\ UNCHANGED <<fix, cvt, spl, dl, arch, mrg, apr, exp, agr, crt, chk>>

\* plt.close(): the current figure, if there is one, is closed.
MaskClose(r) ==
    /\ api.pc = "mask"
    /\ MaskReq(r).pc = "saved"
    /\ api' = [api EXCEPT
                 !.reqs[r].pc = "closed",
                 !.figs = IF @ = <<>> THEN <<>> ELSE SubSeq(@, 1, Len(@) - 1)]
    /\ UNCHANGED <<fix, cvt, spl, dl, arch, mrg, apr, exp, agr, crt, chk>>

\* return FileResponse(filename): the handler is over, the response holds
\* the path of the file.
MaskReturn(r) ==
    /\ api.pc = "mask"
    /\ MaskReq(r).pc = "closed"
    /\ api' = [api EXCEPT !.reqs[r].pc = "returned"]
    /\ UNCHANGED <<fix, cvt, spl, dl, arch, mrg, apr, exp, agr, crt, chk>>

\* The server sends the response: the file is read then.
MaskSend(r) ==
    /\ api.pc = "mask"
    /\ MaskReq(r).pc = "returned"
    /\ api' = [api EXCEPT
                 !.reqs[r].pc = "sent",
                 !.reqs[r].status_code = 200,
                 !.reqs[r].body = api.files[MaskReq(r).entry_id].png]
    /\ UNCHANGED <<fix, cvt, spl, dl, arch, mrg, apr, exp, agr, crt, chk>>

\* The largest entry_id asked for.
MaxEntryId == 1

\* The requests the model draws.
MaskRequests ==
    {[pc |-> "received", task |-> t, category |-> c, entry_id |-> n,
      rgba |-> Blank, status_code |-> 0, body |-> Blank] :
        t \in {"main", "spin_val_parts", "QualificationTest_parts", "bogus"},
        c \in {"BipedArm", "BirdHead"},
        n \in 0..MaxEntryId}

MaskInit ==
    /\ api \in {[pc |-> "mask", reqs |-> <<r1, r2>>, figs |-> <<>>,
                 files |-> [n \in 0..MaxEntryId |->
                              [exists |-> FALSE, png |-> Blank]]] :
                   r1 \in MaskRequests, r2 \in MaskRequests}
    /\ fix = Off /\ cvt = Off /\ spl = Off /\ dl = Off /\ arch = Off
    /\ mrg = Off /\ apr = Off /\ exp = Off /\ agr = Off /\ crt = Off /\ chk = Off

MaskNext ==
    \/ \E r \in 1..2 : MaskLoad(r)
    \/ \E r \in 1..2 : MaskFigure(r)
    \/ \E r \in 1..2 : MaskImshow(r)
    \/ \E r \in 1..2 : MaskSavefig(r)
    \/ \E r \in 1..2 : MaskClose(r)
    \/ \E r \in 1..2 : MaskReturn(r)
    \/ \E r \in 1..2 : MaskSend(r)

SpecMask == MaskInit /\ [][MaskNext]_vars

(***************************************************************************)
(* src/CVAT/create_coco_from_agreements.py                                 *)
(***************************************************************************)

\* A record of the 'results' of an agreement file.  image_id and
\* annotation_id are AbsentId, task_type and split are Absent, when the key
\* is missing or null.
Agreement(consensus_result, image_id, annotation_id, task_type, split) ==
    [consensus_result |-> consensus_result, image_id |-> image_id,
     annotation_id |-> annotation_id, task_type |-> task_type, split |-> split]

\* The filter with no test of consensus_result.
multiple_agreements_unfiltered(agreements) == agreements

\* multiple_agreements: the records with a.get("consensus_result") == 1.
multiple_agreements(agreements) ==
    Filter(agreements,
           [k \in 1..Len(agreements) |->
               PyEq(agreements[k].consensus_result, I(1))])

\* conversion: the split of a task type; Absent for a task type that is
\* not a key.
conversion(task_type) ==
    IF task_type \in {"spin_val_parts", "spin_val_subparts", "val"} THEN "val"
    ELSE IF task_type \in {"spin_test_parts", "spin_test_subparts", "test"} THEN "test"
    ELSE IF task_type \in {"spin_train_parts", "spin_train_subparts", "train"} THEN "train"
    ELSE Absent

\* generate_s3_url(file_name, prefix): the URL under the prefix, with
\* .JPEG added to a name that has no extension.
generate_s3_url(file_name, prefix) ==
    [prefix |-> prefix, stem |-> file_name.stem,
     ext |-> IF file_name.ext = "" THEN ".JPEG" ELSE file_name.ext]

\* image_mappings and annotation_mappings, as loaded from the spin files:
\* by split, the images (id, file name) and the annotation ids.
ImageMappings ==
    [train |-> {[id |-> 2, file_name |-> [stem |-> "b", ext |-> ".jpg"]],
                [id |-> 1, file_name |-> [stem |-> "c", ext |-> ".jpg"]]},
     val |-> {[id |-> 1, file_name |-> [stem |-> "a", ext |-> ""]]},
     test |-> {}]

AnnotationMappings == [train |-> {20}, val |-> {10, 11}, test |-> {}]

\* A set of processed images that never holds anything.
processed_images_never(images) == {}

\* processed_images: the ids of the images added to coco_data so far.
processed_images(images) == {images[m].id : m \in 1..Len(images)}

\* The loop over multiple_agreements from the k-th on.  st holds the
\* images and annotations of coco_data, annotation_id_counter and whether
\* an exception was raised.
RECURSIVE AgrLoop(_, _, _)
AgrLoop(multiple, k, st) ==
    IF k > Len(multiple) \/ st.raised THEN st
    ELSE LET agreement == multiple[k]
             image_id == agreement.image_id
             annotation_id == agreement.annotation_id
             splits == IF conversion(agreement.task_type) # Absent
                       THEN conversion(agreement.task_type)
                       ELSE agreement.split
             next(t) == AgrLoop(multiple, k + 1, t)
         IN  IF image_id = AbsentId \/ annotation_id = AbsentId THEN next(st)
             ELSE IF splits = Absent THEN next(st)
             ELSE IF splits \notin {"train", "val", "test"}
             THEN [st EXCEPT !.raised = TRUE]
             ELSE IF ~\E m \in ImageMappings[splits] : m.id = image_id
             THEN next(st)
             ELSE LET image_info == CHOOSE m \in ImageMappings[splits] : m.id = image_id
                      coco_image == [id |-> image_id,
                                     file_name |-> generate_s3_url(image_info.file_name,
                                                                   splits)]
                      seen == image_id \in processed_images(st.images)
                      st1 == IF seen THEN st
                             ELSE [st EXCEPT !.images = Append(@, coco_image)]
                  IN  IF annotation_id \in AnnotationMappings[splits]
                      THEN next([st1 EXCEPT
                                   !.annotations =
                                       Append(@, [id |-> st1.annotation_id_counter,
                                                  annotation_id |-> annotation_id,
                                                  split |-> splits,
                                                  image_id |-> image_id,
                                                  category_id |-> 1]),
                                   !.annotation_id_counter = @ + 1])
                      ELSE next(st1)

\* No coco_result.
NoResult == [none |-> TRUE, images |-> <<>>, annotations |-> <<>>]

\* process_agreement_file_to_coco.
process_agreement_file_to_coco(readable, agreements) ==
    IF ~readable THEN NoResult
    ELSE LET multiple == multiple_agreements(agreements)
         IN  IF multiple = <<>> THEN NoResult
             ELSE LET st == AgrLoop(multiple, 1,
                                    [raised |-> FALSE, images |-> <<>>,
                                     annotations |-> <<>>,
                                     annotation_id_counter |-> 0])
                  IN  IF st.raised \/ st.images = <<>> THEN NoResult
                      ELSE [none |-> FALSE, images |-> st.images,
                            annotations |-> st.annotations]

\* main: the agreement file is processed.
AgrProcess ==
    /\ agr.pc = "start"
    /\ agr' = [agr EXCEPT
                 !.pc = "processed",
                 !.coco_result = process_agreement_file_to_coco(agr.readable,
                                                                agr.results)]
    /\ UNCHANGED <<fix, cvt, spl, dl, arch, mrg, apr, exp, api, crt, chk>>

\* No coco_result: nothing is saved.
AgrNoResult ==
    /\ agr.pc = "processed"
    /\ agr.coco_result.none
    /\ agr' = [agr EXCEPT !.pc = "done"]
    /\ UNCHANGED <<fix, cvt, spl, dl, arch, mrg, apr, exp, api, crt, chk>>

\* save_coco_file writes <category>_coco.json.
AgrSave ==
    /\ agr.pc = "processed"
    /\ ~agr.coco_result.none
    /\ agr' = [agr EXCEPT !.pc = "done", !.written = agr.coco_result,
                          !.generated = @ + 1]
    /\ UNCHANGED <<fix, cvt, spl, dl, arch, mrg, apr, exp, api, crt, chk>>

\* save_coco_file cannot write the file: the error is printed.
AgrSaveFail ==
    /\ agr.pc = "processed"
    /\ ~agr.coco_result.none
    /\ agr' = [agr EXCEPT !.pc = "done"]
    /\ UNCHANGED <<fix, cvt, spl, dl, arch, mrg, apr, exp, api, crt, chk>>

\* The longest 'results' list the model draws.
MaxAgreements == 2

AgreementShapes ==
    { Agreement(I(1), 1, 10, "spin_val_parts", Absent),
      Agreement(I(1), 1, 11, "spin_val_parts", Absent),
      Agreement(I(0), 1, 10, "spin_val_parts", Absent),
      Agreement(I(0), 2, 20, "train", Absent),
      Agreement(I(2), 2, 20, "train", Absent),
      Agreement(None, 1, 10, "val", Absent),
      Agreement(F(1), 2, 20, "spin_train_parts", Absent),
      Agreement(S(1), 2, 20, "spin_train_parts", Absent),
      Agreement(I(1), 2, 20, "other", "train"),
      Agreement(I(1), 2, 20, "other", Absent),
      Agreement(I(1), 2, 20, "other", "dev"),
      Agreement(I(1), 2, 21, "train", Absent),
      Agreement(I(1), 3, 10, "val", Absent),
      Agreement(I(1), AbsentId, 10, "val", Absent),
      Agreement(I(1), 1, 20, "train", Absent) }

AgrInit ==
    /\ agr \in {[pc |-> "start", readable |-> rd, results |-> rs,
                 coco_result |-> NoResult, written |-> NoResult,
                 generated |-> 0] :
                   rd \in BOOLEAN,
                   rs \in SeqsUpTo(AgreementShapes, MaxAgreements)}
    /\ fix = Off /\ cvt = Off /\ spl = Off /\ dl = Off /\ arch = Off
    /\ mrg = Off /\ apr = Off /\ exp = Off /\ api = Off /\ crt = Off /\ chk = Off

AgrNext ==
    \/ AgrProcess
    \/ AgrNoResult
    \/ AgrSave
    \/ AgrSaveFail

SpecAgreements == AgrInit /\ [][AgrNext]_vars

(***************************************************************************)
(* src/CVAT/create_cvat_tasks.py                                           *)
(***************************************************************************)

\* get_worker_requirements(live, worker_group): QidDic is empty, so the two
\* SPIN-Instance-Excellence groups raise KeyError, any other group raises
\* ValueError in the live environment and has no requirement in the
\* sandbox.
get_worker_requirements(live, worker_group) ==
    IF worker_group \in {"SPIN-Instance-Excellence0", "SPIN-Instance-Excellence1"}
    THEN "KeyError"
    ELSE IF live THEN "ValueError"
    ELSE "[]"

\* The reward sent with the HIT.
Reward(live, category_name, reward) ==
    IF reward = "None"
    THEN IF live
         THEN IF category_name = "Qualification_test" THEN "7.00" ELSE "0.30"
         ELSE "0.00"
    ELSE IF reward = "0.5" THEN "0.50" ELSE reward

\* No record file, no HIT.
NoRecord == [exists |-> FALSE, category |-> "", hit_id |-> ""]

\* main: the CVAT URL of the category is looked up; without one the run
\* ends.
CrtLookup ==
    /\ crt.pc = "start"
    /\ crt' = [crt EXCEPT !.pc = IF crt.cvat_url_found THEN "create" ELSE "done"]
    /\ UNCHANGED <<fix, cvt, spl, dl, arch, mrg, apr, exp, api, agr, chk>>

\* create_mturk_hit up to create_hit: an exception on the way (the worker
\* requirements) is caught and None returned; main prints the failure.
CrtPrepare ==
    /\ crt.pc = "create"
    /\ IF get_worker_requirements(crt.live, crt.worker_group) = "[]"
       THEN crt' = [crt EXCEPT
                      !.pc = "create_hit",
                      !.reward_sent = Reward(crt.live, crt.category_name, crt.reward)]
       ELSE crt' = [crt EXCEPT !.pc = "done"]
    /\ UNCHANGED <<fix, cvt, spl, dl, arch, mrg, apr, exp, api, agr, chk>>

\* mturk.create_hit is accepted: the HIT exists on MTurk under the id of
\* the response.
CrtCreateHitOk ==
    /\ crt.pc = "create_hit"
    /\ \E id \in {"3X4Q", "3ZZZ"} :
          crt' = [crt EXCEPT !.pc = "balance", !.remote_hit = id,
                             !.mturk_info = [none |-> FALSE, hit_id |-> id,
                                             account_balance |-> ""]]
    /\ UNCHANGED <<fix, cvt, spl, dl, arch, mrg, apr, exp, api, agr, chk>>

\* mturk.create_hit raises: no HIT, None returned.
CrtCreateHitFail ==
    /\ crt.pc = "create_hit"
    /\ crt' = [crt EXCEPT !.pc = "done"]
    /\ UNCHANGED <<fix, cvt, spl, dl, arch, mrg, apr, exp, api, agr, chk>>

\* get_account_balance answers, or raises and 'N/A' is kept; the info is
\* returned to main.
CrtBalance ==
    /\ crt.pc = "balance"
    /\ \E b \in {"10.00", "N/A"} :
          crt' = [crt EXCEPT !.pc = "save", !.mturk_info.account_balance = b]
    /\ UNCHANGED <<fix, cvt, spl, dl, arch, mrg, apr, exp, api, agr, chk>>

\* save_hit_info writes <category>_<hit_id>.json with mturk_info in it.
CrtSaveOk ==
    /\ crt.pc = "save"
    /\ crt.dir_writable
    /\ crt' = [crt EXCEPT
                 !.pc = "done",
                 !.record = [exists |-> TRUE, category |-> crt.category_name,
                             hit_id |-> crt.mturk_info.hit_id]]
    /\ UNCHANGED <<fix, cvt, spl, dl, arch, mrg, apr, exp, api, agr, chk>>

\* save_hit_info cannot open the file: the error is printed, None returned,
\* and main goes on to its summary.
CrtSaveFail ==
    /\ crt.pc = "save"
    /\ ~crt.dir_writable
    /\ crt' = [crt EXCEPT !.pc = "done"]
    /\ UNCHANGED <<fix, cvt, spl, dl, arch, mrg, apr, exp, api, agr, chk>>

CrtInit ==
    /\ crt \in {[pc |-> "start", category_name |-> c, live |-> l,
                 worker_group |-> g, reward |-> rw, cvat_url_found |-> u,
                 dir_writable |-> w, reward_sent |-> "",
                 remote_hit |-> "", record |-> NoRecord,
                 mturk_info |-> [none |-> TRUE, hit_id |-> "",
                                 account_balance |-> ""]] :
                   c \in {"QuadrupedFoot_train", "Qualification_test"},
                   l \in BOOLEAN,
                   g \in {"Excellence", "SPIN-Instance-Excellence0"},
                   rw \in {"None", "0.5"},
                   u \in BOOLEAN, w \in BOOLEAN}
    /\ fix = Off /\ cvt = Off /\ spl = Off /\ dl = Off /\ arch = Off
    /\ mrg = Off /\ apr = Off /\ exp = Off /\ api = Off /\ agr = Off /\ chk = Off

CrtNext ==
    \/ CrtLookup
    \/ CrtPrepare
    \/ CrtCreateHitOk
    \/ CrtCreateHitFail
    \/ CrtBalance
    \/ CrtSaveOk
    \/ CrtSaveFail

SpecCreateHit == CrtInit /\ [][CrtNext]_vars

(***************************************************************************)
(* backend/data/analytics/check_multiple_first_appearance.py               *)
(***************************************************************************)

\* A submission is modelled by its row: [a.get("result") for a in
\* s.get("annotations", [])], None standing for a null or missing result.

\* max(len(r) for r in rows).
max_len(rows) ==
    IF rows = <<>> THEN 0
    ELSE CHOOSE n \in {Len(rows[k]) : k \in 1..Len(rows)} :
            \A k \in 1..Len(rows) : Len(rows[k]) <= n

\* row[ann_idx] after the row was padded with None.
Padded(row, ann_idx) == IF ann_idx <= Len(row) THEN row[ann_idx] ELSE None

\* ann_results: the results at a position that are not None, in the order
\* of the submissions.
ann_results(rows, ann_idx) ==
    LET col == [k \in 1..Len(rows) |-> Padded(rows[k], ann_idx)]
    IN  Filter(col, [k \in 1..Len(rows) |-> col[k] # None])

\* result_counts[v]: the results equal to v (equal keys of a Counter are one
\* key).
result_counts(results, v) ==
    Cardinality({k \in 1..Len(results) : PyEq(results[k], v)})

\* The number of keys of result_counts.
CounterKeys(results) ==
    Cardinality({k \in 1..Len(results) :
                    \A j \in 1..(k - 1) : ~PyEq(results[j], results[k])})

\* result_counts.most_common()[0]: the key of the highest count and, of
\* several such keys, the one met first, as it was first met.
most_common(results) ==
    LET best == CHOOSE k \in 1..Len(results) :
                    /\ \A j \in 1..Len(results) :
                          result_counts(results, results[j])
                              <= result_counts(results, results[k])
                    /\ \A j \in 1..(k - 1) :
                          result_counts(results, results[j])
                              < result_counts(results, results[k])
    IN  [value |-> results[best],
         count |-> result_counts(results, results[best])]

\* What the loop body appends for one annotation position, if anything.
Appended(value) == [some |-> TRUE, value |-> value]
Nothing == [some |-> FALSE, value |-> None]

ConsensusAt(rows, ann_idx) ==
    LET results == ann_results(rows, ann_idx)
    IN  IF Len(results) < 2
        THEN IF Len(results) = 1 THEN Appended(results[1]) ELSE Nothing
        ELSE IF CounterKeys(results) = 1 \/ most_common(results).count >= 2
             THEN Appended(most_common(results).value)
             ELSE Nothing

\* check_annotation_agreement(submissions): consensus_results.
check_annotation_agreement(submissions) ==
    IF submissions = <<>> THEN <<>>
    ELSE LET per == [i \in 1..max_len(submissions) |-> ConsensusAt(submissions, i)]
             kept == Filter(per, [i \in 1..Len(per) |-> per[i].some])
         IN  [m \in 1..Len(kept) |-> kept[m].value]

\* The function applied to the submissions of one group.
ChkAgreement ==
    /\ chk.pc = "submissions"
    /\ chk' = [chk EXCEPT
                 !.pc = "agreement",
                 !.consensus_results = check_annotation_agreement(chk.submissions)]
    /\ UNCHANGED <<fix, cvt, spl, dl, arch, mrg, apr, exp, api, agr, crt>>

\* The most submissions of a group the model draws.
MaxSubmissions == 4

\* The rows of the submissions.
SubmissionRows ==
    { <<>>, <<None>>, <<I(0)>>, <<I(1)>>, <<I(2)>>, <<F(1)>>,
      <<I(1), I(0)>>, <<I(0), I(1)>>, <<None, I(1)>>, <<I(1), I(1)>> }

ChkAgreementInit ==
    /\ chk \in {[pc |-> "submissions", submissions |-> s,
                 consensus_results |-> <<>>] :
                   s \in SeqsUpTo(SubmissionRows, MaxSubmissions)}
    /\ fix = Off /\ cvt = Off /\ spl = Off /\ dl = Off /\ arch = Off
    /\ mrg = Off /\ apr = Off /\ exp = Off /\ api = Off /\ agr = Off /\ crt = Off

ChkAgreementNext == ChkAgreement

SpecAgreement == ChkAgreementInit /\ [][ChkAgreementNext]_vars

\* The number of 'Multiple Instances' results at which the count stops.
MultiplesWanted == 5

\* The counters of one category: None is AbsentId.
ChkCounters(first, fifth, total, multiple, broke) ==
    [first_multiple_annotation_count |-> first,
     first_5_multiples_annotation_count |-> fifth,
     total_annotations |-> total, multiple_count |-> multiple, broke |-> broke]

\* The loop over the consensus results of a group that goes on after the
\* fifth result equal to 1.
RECURSIVE CountResultsNoBreak(_, _, _)
CountResultsNoBreak(consensus_results, k, st) ==
    IF k > Len(consensus_results) THEN st
    ELSE LET total == st.total_annotations + 1
             one == PyEq(consensus_results[k], I(1))
             multiple == IF one THEN st.multiple_count + 1 ELSE st.multiple_count
             first == IF one /\ st.first_multiple_annotation_count = AbsentId
                      THEN total ELSE st.first_multiple_annotation_count
             fifth == IF one /\ multiple = MultiplesWanted
                            /\ st.first_5_multiples_annotation_count = AbsentId
                      THEN total ELSE st.first_5_multiples_annotation_count
         IN  CountResultsNoBreak(consensus_results, k + 1,
                                 ChkCounters(first, fifth, total, multiple, FALSE))

\* for ann_idx, result in enumerate(consensus_results): the counters after
\* the results from the k-th on, up to the break at the fifth result equal
\* to 1.
RECURSIVE CountResults(_, _, _)
CountResults(consensus_results, k, st) ==
    IF k > Len(consensus_results) \/ st.broke THEN st
    ELSE LET total == st.total_annotations + 1
             one == PyEq(consensus_results[k], I(1))
             multiple == IF one THEN st.multiple_count + 1 ELSE st.multiple_count
             first == IF one /\ st.first_multiple_annotation_count = AbsentId
                      THEN total ELSE st.first_multiple_annotation_count
             reached == one /\ multiple = MultiplesWanted
                            /\ st.first_5_multiples_annotation_count = AbsentId
             fifth == IF reached THEN total
                      ELSE st.first_5_multiples_annotation_count
         IN  CountResults(consensus_results, k + 1,
                          ChkCounters(first, fifth, total, multiple, reached))

\* consensus_results of a group: the results of a single submission of the
\* main and spin_train_parts splits that are not None, else the agreement of
\* the submissions.
GroupConsensus(split, submissions) ==
    IF split \in {"main", "spin_train_parts"} /\ Len(submissions) = 1
    THEN Filter(submissions[1],
                [i \in 1..Len(submissions[1]) |-> submissions[1][i] # None])
    ELSE check_annotation_agreement(submissions)

\* No entry of category_first_multiples.
NoFirstMultiple ==
    [stored |-> FALSE, first_multiple_at_annotation |-> AbsentId,
     annotations_to_5_multiples |-> AbsentId, total_annotations |-> 0,
     multiple_count |-> 0, reached_5_multiples |-> FALSE]

\* A group none of whose submissions could be listed or read.
ChkSkipGroup ==
    /\ chk.pc = "groups"
    /\ chk.g <= Len(chk.groups)
    /\ chk.counters.multiple_count < MultiplesWanted
    /\ chk.groups[chk.g] = <<>>
    /\ chk' = [chk EXCEPT !.g = @ + 1]
    /\ UNCHANGED <<fix, cvt, spl, dl, arch, mrg, apr, exp, api, agr, crt>>

\* The next group, in sorted order: its consensus results are counted.
ChkGroup ==
    /\ chk.pc = "groups"
    /\ chk.g <= Len(chk.groups)
    /\ chk.counters.multiple_count < MultiplesWanted
    /\ chk.groups[chk.g] # <<>>
    /\ chk' = [chk EXCEPT
                 !.g = @ + 1,
                 !.counters =
                     CountResults(GroupConsensus(chk.split, chk.groups[chk.g]), 1,
                                  [chk.counters EXCEPT !.broke = FALSE])]
    /\ UNCHANGED <<fix, cvt, spl, dl, arch, mrg, apr, exp, api, agr, crt>>

\* The group loop is over, by its end or by the break at five multiples:
\* the entry of the category is stored if a multiple was met.
ChkStore ==
    /\ chk.pc = "groups"
    /\ chk.g > Len(chk.groups) \/ chk.counters.multiple_count >= MultiplesWanted
    /\ chk' = [chk EXCEPT
                 !.pc = "stored",
                 !.category_first_multiples =
                     IF chk.counters.first_multiple_annotation_count # AbsentId
                     THEN [stored |-> TRUE,
                           first_multiple_at_annotation |->
                               chk.counters.first_multiple_annotation_count,
                           annotations_to_5_multiples |->
                               chk.counters.first_5_multiples_annotation_count,
                           total_annotations |-> chk.counters.total_annotations,
                           multiple_count |-> chk.counters.multiple_count,
                           reached_5_multiples |->
                               chk.counters.first_5_multiples_annotation_count
                                   # AbsentId]
                     ELSE NoFirstMultiple]
    /\ UNCHANGED <<fix, cvt, spl, dl, arch, mrg, apr, exp, api, agr, crt>>

\* The most groups of a category the model draws.
MaxGroups == 4

\* The submissions of a group, by their rows.
GroupShapes ==
    { <<>>,
      <<(<<I(1), I(1), I(1)>>)>>,
      <<(<<None, I(1)>>)>>,
      <<(<<I(0), F(1)>>)>>,
      <<(<<I(1), I(0)>>), (<<I(1), I(0)>>), (<<I(0), I(1)>>)>>,
      <<(<<I(0)>>), (<<I(1)>>), (<<I(2)>>)>>,
      <<(<<I(1), I(1)>>), (<<I(1), I(1)>>)>> }

ChkInit ==
    /\ chk \in {[pc |-> "groups", split |-> sp, groups |-> gs, g |-> 1,
                 counters |-> ChkCounters(AbsentId, AbsentId, 0, 0, FALSE),
                 category_first_multiples |-> NoFirstMultiple] :
                   sp \in {"agreeTest", "main"},
                   gs \in SeqsUpTo(GroupShapes, MaxGroups)}
    /\ fix = Off /\ cvt = Off /\ spl = Off /\ dl = Off /\ arch = Off
    /\ mrg = Off /\ apr = Off /\ exp = Off /\ api = Off /\ agr = Off /\ crt = Off

ChkNext ==
    \/ ChkSkipGroup
    \/ ChkGroup
    \/ ChkStore

SpecFirstAppearance == ChkInit /\ [][ChkNext]_vars

(***************************************************************************)
(* src/Classcification/backend/main.py: the entry of a request             *)
(***************************************************************************)

\* FileResponse(filename): status 200, the file as body.
FileResponse(content) ==
    [raised |-> FALSE, http |-> TRUE, status_code |-> 200, detail |-> "",
     content |-> content]

\* annotations[entry_id] on a Python list of n elements: the 1-based
\* position of the element, a negative index counting from the end; 0 for
\* the IndexError.
ListPosition(n, entry_id) ==
    IF 0 <= entry_id /\ entry_id < n THEN entry_id + 1
    ELSE IF 0 - n <= entry_id /\ entry_id < 0 THEN n + entry_id + 1
    ELSE 0

\* The task whose file is read: the qualification tasks read the spin_val
\* files.
FileTask(task) ==
    IF task = "QualificationTest_parts" THEN "spin_val_parts"
    ELSE IF task = "QualificationTest_subparts" THEN "spin_val_subparts"
    ELSE task

\* The annotation file of a task: entry k (from 0) is the annotation of
\* image k + 1 and category k + 1, with its own mask; the files of 'main' and
\* 'agreeTest' are the list of annotations alone, each naming its image file.
EntryAnnotation(k) ==
    [image_id |-> k + 1, category_id |-> k + 1,
     image_file_name |-> <<"image", k + 1>>, split |-> "val",
     segmentation |-> <<"rle", k>>]

EntryFile(n) ==
    [images |-> [i \in 1..(n + 1) |-> [file_name |-> <<"image", i - 1>>]],
     annotations |-> [i \in 1..n |-> EntryAnnotation(i - 1)],
     categories |-> [i \in 1..n |-> [id |-> i - 1]]]

\* full_path: the URL of the image, by the directory of the split and the
\* file name.
ImageUrl(attribute, file_name) == [attribute |-> attribute, image_name |-> file_name]

\* get_image(task, category, entry_id); head_ok: requests.head answers 200.
get_image(task, entry_id, file, head_ok) ==
    IF task \notin tasks THEN HTTPException(400, "Invalid task specified")
    ELSE LET t == FileTask(task)
             at == ListPosition(Len(file.annotations), entry_id)
         IN  IF at = 0 THEN OtherException
             ELSE IF t \in {"main", "agreeTest"}
             THEN IF ~head_ok THEN HTTPException(404, "Image file not found")
                  ELSE JSONResponse(ImageUrl(file.annotations[at].split,
                                             file.annotations[at].image_file_name))
             ELSE LET image_id == file.annotations[at].image_id
                  IN  IF image_id < 0 \/ image_id >= Len(file.images)
                      THEN HTTPException(404, "Image not found")
                      ELSE IF ~head_ok
                      THEN HTTPException(404, "Image file not found")
                      ELSE JSONResponse(ImageUrl(IF t \in {"spin_val_parts",
                                                          "spin_val_subparts"}
                                                 THEN "val" ELSE "other",
                                                 file.images[image_id + 1].file_name))

\* get_mask(task, category, entry_id), one request at a time: the mask of
\* the entry's segmentation, saved and sent.
get_mask(task, entry_id, file) ==
    IF task \notin tasks THEN HTTPException(400, "Invalid task specified")
    ELSE LET at == ListPosition(Len(file.annotations), entry_id)
         IN  IF at = 0 THEN OtherException
             ELSE FileResponse([mask |-> file.annotations[at].segmentation])

\* get_category(task, entry_id).
get_category(task, entry_id, file) ==
    IF task \notin tasks THEN HTTPException(400, "Invalid task specified")
    ELSE LET t == FileTask(task)
             at == ListPosition(Len(file.annotations), entry_id)
         IN  IF at = 0 THEN OtherException
             ELSE LET c == file.annotations[at].category_id
                      category_id == IF t \in {"spin_val_subparts",
                                               "spin_train_subparts",
                                               "spin_test_subparts"}
                                     THEN c - 1 ELSE c
                  IN  IF category_id < 0 \/ category_id >= Len(file.categories)
                      THEN HTTPException(404, "Category not found")
                      ELSE JSONResponse(file.categories[category_id + 1])

\* What the handler of the request returns or raises.
EntryHandler(endpoint, task, entry_id, file, head_ok) ==
    IF endpoint = "/api/image/" THEN get_image(task, entry_id, file, head_ok)
    ELSE IF endpoint = "/api/mask/" THEN get_mask(task, entry_id, file)
    ELSE get_category(task, entry_id, file)

\* The handler runs and the server answers: the response returned, the
\* status of an HTTPException, or 500 for any other exception.
EntryRespond ==
    /\ api.pc = "entry"
    /\ LET r == EntryHandler(api.endpoint, api.task, api.entry_id, api.file,
                             api.head_ok)
       IN  api' = [api EXCEPT
                     !.pc = "answered",
                     !.status_code = IF ~r.raised THEN 200
                                     ELSE IF r.http THEN r.status_code
                                     ELSE 500,
                     !.ok = ~r.raised,
                     !.body = IF r.raised THEN <<[detail |-> r.detail]>>
                              ELSE <<r.content>>]
    /\ UNCHANGED <<fix, cvt, spl, dl, arch, mrg, apr, exp, agr, crt, chk>>

EntryInit ==
    /\ api \in {[pc |-> "entry", endpoint |-> e, task |-> t, entry_id |-> n,
                 file |-> EntryFile(MaxEntryId + 1), head_ok |-> h,
                 status_code |-> 0, ok |-> FALSE, body |-> <<>>] :
                   e \in {"/api/image/", "/api/mask/", "/api/category/"},
                   t \in {"main", "spin_val_parts", "spin_val_subparts",
                          "QualificationTest_parts", "bogus"},
                   n \in (0 - MaxEntryId - 3)..(MaxEntryId + 2),
                   h \in BOOLEAN}
    /\ fix = Off /\ cvt = Off /\ spl = Off /\ dl = Off /\ arch = Off
    /\ mrg = Off /\ apr = Off /\ exp = Off /\ agr = Off /\ crt = Off /\ chk = Off

EntryNext == EntryRespond

SpecEntries == EntryInit /\ [][EntryNext]_vars

(***************************************************************************)
(* Properties of fix_train_annotations and convert_cvat_to_rle             *)
(***************************************************************************)

\* The [x, y, w, h] the bbox check looks at: the flat list, or the first
\* inner list of a nested one.
BBoxQuad(bbox) ==
    IF bbox.k # "list" THEN <<>>
    ELSE IF Len(bbox.items) > 0 /\ bbox.items[1].isList THEN bbox.items[1].l
    ELSE IF \A i \in 1..Len(bbox.items) : ~bbox.items[i].isList
    THEN [i \in 1..Len(bbox.items) |-> bbox.items[i].s]
    ELSE <<>>

IsNumber(v) == v.t \in {"int", "float"}

BBoxNonPositive(bbox) ==
    LET q == BBoxQuad(bbox)
    IN  /\ Len(q) = 4
        /\ \E i \in {3, 4} : q[i].t \in {"int", "float", "numstr"} /\ q[i].v <= 0

FixLacksRequired(ann) ==
    \/ ann.area.t = "null"
    \/ ann.bbox.k = "null"
    \/ ann.segmentation.k = "null"
    \/ ann.iscrowd.t = "null"
    \/ BBoxNonPositive(ann.bbox)

\* C1: when main has written the file, no input annotation that lacks area,
\* bbox, segmentation or iscrowd, or whose bbox width or height is not
\* positive, is among the annotations kept, and the kept ones (the only ones
\* given a final id) are no more than the inputs free of those defects.
C1_DefectiveAnnotationsDropped ==
    fix.pc = "done" =>
        /\ \A i \in 1..Len(fix.annotations) :
              FixLacksRequired(fix.annotations[i]) => i \notin Range(fix.kept)
        /\ Len(fix.written) = Len(fix.kept)
        /\ Len(fix.written) <=
              Cardinality({i \in 1..Len(fix.annotations) :
                              ~FixLacksRequired(fix.annotations[i])})

\* C1 witness: a run that dropped a defective annotation and kept another.
C1_Witness ==
    /\ fix.pc = "done"
    /\ Len(fix.written) >= 1
    /\ \E i \in 1..Len(fix.annotations) :
          /\ BBoxNonPositive(fix.annotations[i].bbox)
          /\ i \notin Range(fix.kept)

\* C2: the ids of the written annotations, in output order, are 1, 2, ..., N,
\* N being the number of annotations kept.
C2_IdsAreOneToN ==
    fix.pc = "done" =>
        /\ Len(fix.written) = Len(fix.annotations) - fix.removed
        /\ \A j \in 1..Len(fix.written) : fix.written[j].id = I(j)

\* C2 witness: two annotations kept, one of which had no id or an id other
\* than its final one.
C2_Witness ==
    /\ fix.pc = "done"
    /\ Len(fix.written) = 2
    /\ \E j \in 1..2 : fix.annotations[fix.kept[j]].id # I(j)

\* C2 witness of a gap closed: an annotation kept after a dropped one.
C2_WitnessAfterDrop ==
    /\ fix.pc = "done"
    /\ fix.kept = <<2>>

\* The group of input annotation j: the positions sharing its image and
\* category.
CvtPairs(anns) == {<<anns[k].image_id, anns[k].category_id>> : k \in 1..Len(anns)}

\* C3 as claimed: after a file is saved, for every (image_id, category_id)
\* pair the instance_id values of its annotations are exactly {1..k}, k the
\* number of input annotations of the pair.
C3_InstanceIdsAreOneToK ==
    cvt.pc = "saved" =>
        \A pr \in CvtPairs(cvt.annotations) :
            LET group == CvtGroup(cvt.annotations, pr[1], pr[2])
            IN  {cvt.written[group[m]].instance_id : m \in 1..Len(group)}
                    = {I(m) : m \in 1..Len(group)}

\* C3 restricted to the annotations whose image is listed in 'images'.
C3_InstanceIdsOfListedImages ==
    cvt.pc = "saved" =>
        \A pr \in CvtPairs(cvt.annotations) :
            InImages(cvt.images, pr[1]) =>
                LET group == CvtGroup(cvt.annotations, pr[1], pr[2])
                IN  {cvt.written[group[m]].instance_id : m \in 1..Len(group)}
                        = {I(m) : m \in 1..Len(group)}

\* C4 as claimed: the i-th annotation of a group, in file order, receives
\* instance_id i.
C4_InstanceIdIsFilePosition ==
    cvt.pc = "saved" =>
        \A j \in 1..Len(cvt.annotations) :
            cvt.written[j].instance_id =
                I(cvt_instance_index_by_position(cvt.annotations, j))

\* The example of C4: two foot polygons and a head polygon of one image, in
\* any file order, get foot 1, foot 2, head 1.
C4_ExampleHolds ==
    (/\ cvt.pc = "saved"
     /\ Len(cvt.annotations) = 3
     /\ \A j \in 1..3 : /\ cvt.annotations[j].category_name = "absent"
                        /\ InImages(cvt.images, cvt.annotations[j].image_id))
    => \A j \in 1..3 :
          cvt.written[j].instance_id =
              I(cvt_instance_index_by_position(cvt.annotations, j))

IsFlatQuad(bbox) ==
    /\ bbox.k = "list"
    /\ Len(bbox.items) = 4
    /\ \A i \in 1..4 : ~bbox.items[i].isList

IsNestedQuad(bbox) ==
    /\ bbox.k = "list"
    /\ Len(bbox.items) = 1
    /\ bbox.items[1].isList
    /\ Len(bbox.items[1].l) = 4

\* C5 as claimed: a kept annotation with a flat 4-element bbox keeps it
\* unchanged, one with a nested [[x, y, w, h]] gets the inner list (equal as
\* Python compares lists).
C5_BBoxUnchangedOrInner ==
    fix.pc = "done" =>
        \A j \in 1..Len(fix.written) :
            LET in == fix.annotations[fix.kept[j]].bbox
                out == fix.written[j].bbox
            IN  /\ IsFlatQuad(in) => out = in
                /\ IsNestedQuad(in) =>
                      /\ out.k = "list"
                      /\ PyEqList(out.items, Flat(in.items[1].l).items)

\* C5 amended: the same for a bbox whose four values are numbers (a value
\* given as a numeric string is replaced by its float).
C5_NumericBBoxUnchangedOrInner ==
    fix.pc = "done" =>
        \A j \in 1..Len(fix.written) :
            LET in == fix.annotations[fix.kept[j]].bbox
                out == fix.written[j].bbox
            IN  /\ (IsFlatQuad(in) /\ \A i \in 1..4 : IsNumber(in.items[i].s))
                      => out = in
                /\ (IsNestedQuad(in) /\ \A i \in 1..4 : IsNumber(in.items[1].l[i]))
                      => /\ out.k = "list"
                         /\ PyEqList(out.items, Flat(in.items[1].l).items)

\* C5 witness: a run that kept an annotation with a flat numeric bbox and
\* one with a nested numeric bbox.
C5_Witness ==
    /\ fix.pc = "done"
    /\ Len(fix.written) = 2
    /\ IsFlatQuad(fix.annotations[1].bbox)
    /\ IsNestedQuad(fix.annotations[2].bbox)
    /\ \A i \in 1..4 : IsNumber(fix.annotations[2].bbox.items[1].l[i])

IsRLEOfImage(seg, img) ==
    /\ seg.k = "dict"
    /\ {"size", "counts"} \subseteq seg.has
    /\ seg.size = <<img.height, img.width>>
    /\ seg.counts = "str"

\* C6: in both converters, a written annotation that came in with a polygon
\* segmentation (a list of coordinate lists) and whose image is listed has
\* an RLE dict as segmentation: size [height, width] of its image, counts a
\* string.
C6_PolygonBecomesRLE ==
    /\ fix.pc = "done" =>
          \A j \in 1..Len(fix.written) :
              LET in == fix.annotations[fix.kept[j]]
              IN  (in.segmentation = SegPoly("polys")
                   /\ InImages(fix.images, in.image_id))
                  => IsRLEOfImage(fix.written[j].segmentation,
                                  ImageOf(fix.images, in.image_id))
    /\ cvt.pc = "saved" =>
          \A j \in 1..Len(cvt.written) :
              LET in == cvt.annotations[j]
              IN  (in.segmentation = SegPoly("polys")
                   /\ InImages(cvt.images, in.image_id))
                  => IsRLEOfImage(cvt.written[j].segmentation,
                                  ImageOf(cvt.images, in.image_id))

\* C6 witness: fix_train_annotations kept an annotation that came in with a
\* polygon of a listed image.
C6_Witness ==
    /\ fix.pc = "done"
    /\ \E j \in 1..Len(fix.written) :
          /\ fix.annotations[fix.kept[j]].segmentation = SegPoly("polys")
          /\ fix.written[j].segmentation.k = "dict"

\* C6 in convert_cvat_to_rle: a polygon of a listed image was converted.
C6_WitnessConvert ==
    /\ cvt.pc = "saved"
    /\ \E j \in 1..Len(cvt.written) :
          /\ cvt.annotations[j].segmentation = SegPoly("polys")
          /\ cvt.written[j].segmentation.k = "dict"

\* An annotation convert_cvat_to_rle reports as an error.
CvtFails(ann, images) ==
    \/ ~InImages(images, ann.image_id)
    \/ ~Truthy(ann.segmentation)
    \/ ann.segmentation.k = "other"
    \/ ann.segmentation.k = "dict" /\ "counts" \notin ann.segmentation.has
    \/ ann.segmentation.k = "list"
       /\ cvt_polygon_to_rle(ann.segmentation, 1, 1) = SegNone

RECURSIVE ConcatImages(_, _)
ConcatImages(chunks, c) ==
    IF c = 0 THEN <<>> ELSE ConcatImages(chunks, c - 1) \o chunks[c].images

\* C8: the chunks split_large_dataset returns for max_items = 150 hold at
\* most 150 images each, their image lists concatenated in chunk order are
\* the split's image list, and a split of at most 150 images gives one chunk
\* whose index is None.
C8_ChunksPartitionTheSplit ==
    spl.pc = "returned" =>
        /\ \A c \in 1..Len(spl.chunks) : Len(spl.chunks[c].images) <= 150
        /\ ConcatImages(spl.chunks, Len(spl.chunks)) = spl.split_images
        /\ Len(spl.split_images) <= 150 =>
              Len(spl.chunks) = 1 /\ spl.chunks[1].index = None
        /\ Len(spl.split_images) > 150 =>
              \A c \in 1..Len(spl.chunks) : spl.chunks[c].index = I(c - 1)

\* C8 witness: a split cut into three chunks, the last one not full.
C8_Witness ==
    /\ spl.pc = "returned"
    /\ Len(spl.chunks) = 3
    /\ Len(spl.chunks[3].images) \in 1..149

\* C9: a call of download_image makes at most 3 attempts; it returns True
\* right after its first successful attempt (every attempt before it failed
\* and was followed by one sleep), sleeps after each failed attempt but the
\* last, and returns False only after three failed attempts and two sleeps.
C9_ThreeAttemptsOneSecondApart ==
    dl.pc \in {"try", "sleep", "returned"} =>
        /\ dl.attempts <= 3
        /\ dl.pc = "try" => dl.attempts = dl.failed /\ dl.sleeps = dl.failed
        /\ dl.pc = "sleep" => dl.attempts = dl.failed /\ dl.sleeps = dl.failed - 1
        /\ dl.pc = "returned" <=> dl.result # "none"
        /\ dl.result = "True" =>
              dl.attempts = dl.failed + 1 /\ dl.sleeps = dl.failed
        /\ dl.result = "False" =>
              dl.attempts = 3 /\ dl.failed = 3 /\ dl.sleeps = 2

\* C9 witness: a call that returned False after its third failed attempt.
C9_Witness ==
    /\ dl.pc = "returned"
    /\ dl.result = "False"
    /\ dl.attempts = 3

\* C9 witness of a success after a retry.
C9_WitnessRetrySucceeds ==
    /\ dl.pc = "returned"
    /\ dl.result = "True"
    /\ dl.failed = 2

RECURSIVE SumField(_, _)
SumField(q, f) == IF q = <<>> THEN 0 ELSE q[1][f] + SumField(Tail(q), f)

\* The annotation files a run has to write for one split: one per chunk,
\* with the chunk's images and annotations.
ExpectedFilesOfSplit(split_name) ==
    LET split_images == OrganizedImages(arch.coco_images, split_name)
        chunks == split_large_dataset(split_images,
                      AnnotationsOf(arch.coco_annotations, split_images), MaxItems)
    IN  IF split_images = <<>> THEN <<>>
        ELSE [c \in 1..Len(chunks) |->
                [split |-> split_name, chunk_idx |-> chunks[c].index,
                 images |-> [m \in 1..Len(chunks[c].images) |-> chunks[c].images[m].id],
                 annotations |-> chunks[c].annotations]]

ExpectedFiles ==
    IF arch.split_filter = "none"
    THEN ExpectedFilesOfSplit("train") \o ExpectedFilesOfSplit("val")
            \o ExpectedFilesOfSplit("test")
    ELSE ExpectedFilesOfSplit(arch.split_filter)

\* C10: whatever downloads failed, every chunk finished has successful +
\* failed equal to its number of images and its annotation file written,
\* and the run returns with the annotation file of every chunk of every
\* split and with totals that are the sums over the chunks.
C10_FailedDownloadDoesNotAbort ==
    /\ arch.pc # "off" =>
          /\ Len(arch.files) = Len(arch.archives)
          /\ \A a \in 1..Len(arch.archives) :
                arch.archives[a].images + arch.archives[a].images_failed
                    = Len(arch.files[a].images)
    /\ arch.pc = "returned" =>
          /\ arch.files = ExpectedFiles
          /\ arch.result.images_downloaded = SumField(arch.archives, "images")
          /\ arch.result.images_failed = SumField(arch.archives, "images_failed")

\* C10 witness: a run that returned after a download failed in the first
\* of several chunks, in which other images were downloaded.
C10_Witness ==
    /\ arch.pc = "returned"
    /\ Len(arch.archives) >= 2
    /\ arch.archives[1].images_failed >= 1
    /\ arch.archives[1].images >= 1
    /\ arch.result.images_failed >= 1

(***************************************************************************)
(* Properties of merge_to_spin2                                            *)
(***************************************************************************)

\* C11: with --dry-run no spin2 file is modified: after the run the content
\* of the three spin2 files is their content before the run.
C11_DryRunModifiesNothing ==
    (mrg.pc = "done" /\ mrg.dry_run) => mrg.disk = mrg.before

\* C12: a save interrupted at any point leaves every spin2 file holding a
\* whole document: its content before the run, or the complete new content.
C12_InterruptedSaveIsAtomic ==
    mrg.pc = "interrupted" =>
        \A split \in Spin2Splits :
            \/ mrg.disk[split] = mrg.before[split]
            \/ mrg.disk[split].complete

(***************************************************************************)
(* Properties of approve_hits                                              *)
(***************************************************************************)

\* The calls approve / reject has to have made once the first n listed
\* assignments are handled: one for each 'Submitted' one, in order.
RECURSIVE SubmittedOf(_, _)
SubmittedOf(assignments, n) ==
    IF n = 0 THEN <<>>
    ELSE LET rest == SubmittedOf(assignments, n - 1)
         IN  IF assignments[n].AssignmentStatus = "Submitted"
             THEN Append(rest, assignments[n].AssignmentId)
             ELSE rest

\* C13: approve (reject) makes exactly one approve_assignment
\* (reject_assignment) call for each listed 'Submitted' assignment and none
\* for the others; a call that raises is printed and the remaining
\* assignments still get their calls.
C13_OneCallPerSubmittedAssignment ==
    (apr.pc \in {"loop", "done"} /\ apr.listed) =>
        /\ apr.pc = "done" => (apr.assignments = <<>> \/ apr.i = Len(apr.assignments) + 1)
        /\ LET due == SubmittedOf(apr.assignments, apr.i - 1)
           IN  /\ Len(apr.calls) = Len(due)
               /\ \A c \in 1..Len(due) :
                     /\ apr.calls[c].AssignmentId = due[c]
                     /\ apr.calls[c].op = apr.op
        /\ apr.printed = Cardinality({c \in 1..Len(apr.calls) : ~apr.calls[c].ok})

\* C13 witness: a run over in which a call raised and a later assignment
\* got its call.
C13_Witness ==
    /\ apr.pc = "done"
    /\ Len(apr.calls) >= 2
    /\ ~apr.calls[1].ok
    /\ apr.calls[2].ok
    /\ apr.skipped >= 1

\* C14 as stated: a second run makes a call for each listed assignment that
\* is no longer 'Submitted'.
C14_RerunReattemptsApproval ==
    (apr.pc = "done" /\ apr.run = 2 /\ apr.listed) =>
        \A k \in 1..Len(apr.assignments) :
            apr.assignments[k].AssignmentStatus # "Submitted" =>
                \E c \in 1..Len(apr.calls) : apr.calls[c].AssignmentId = k

\* C14: a second run makes no call for an assignment that is no longer
\* 'Submitted': it is skipped, nothing is refused by MTurk on its account,
\* and its status stays what it was.
C14_RerunSkipsNonSubmitted ==
    (apr.pc \in {"loop", "done"} /\ apr.run = 2 /\ apr.listed) =>
        \A k \in 1..Len(apr.assignments) :
            apr.assignments[k].AssignmentStatus # "Submitted" =>
                /\ \A c \in 1..Len(apr.calls) : apr.calls[c].AssignmentId # k
                /\ apr.remote[k] = apr.before[k]

\* C14 witness: a second approve run over an assignment the first run
\* approved, ended with no call made.
C14_Witness ==
    /\ apr.pc = "done"
    /\ apr.run = 2
    /\ apr.op = "approve"
    /\ apr.listed
    /\ Len(apr.assignments) >= 1
    /\ \A k \in 1..Len(apr.assignments) : apr.assignments[k].AssignmentStatus = "Approved"
    /\ apr.skipped = Len(apr.assignments)
    /\ apr.calls = <<>>
    /\ apr.printed = 0

(***************************************************************************)
(* Properties of expire_hits                                               *)
(***************************************************************************)

\* 'yes' or 'y' in any case, among the answers drawn.
SaidYes(response) == response \in {"yes", "y", "YES", "Yes", "Y"}

\* C15: expire_hit creates an MTurk client and makes MTurk calls only after
\* the operator answered 'yes' or 'y' (in any case); after such an answer
\* update_expiration_for_hit is called exactly once, after get_hit, whether
\* get_hit answered or raised.
C15_ExpiryOnlyAfterYes ==
    exp.pc # "off" =>
        /\ (exp.client_created \/ exp.calls # <<>>) => SaidYes(exp.answer)
        /\ (exp.answer # "none" /\ ~SaidYes(exp.answer)) => exp.pc = "done"
        /\ (exp.pc = "done" /\ exp.client_created) =>
              /\ Len(exp.calls) = 2
              /\ exp.calls[1].name = "get_hit"
              /\ exp.calls[2].name = "update_expiration_for_hit"
        /\ (exp.pc = "done" /\ SaidYes(exp.answer) /\ exp.environment \in ENVIRONMENTS)
              => exp.client_created

\* C15 witness: after the answer 'YES' get_hit raised and the expiry call
\* was made and accepted.
C15_Witness ==
    /\ exp.pc = "done"
    /\ exp.answer = "YES"
    /\ Len(exp.calls) = 2
    /\ ~exp.calls[1].ok
    /\ exp.calls[2].name = "update_expiration_for_hit"
    /\ exp.calls[2].ok
    /\ exp.hit_status = "Expired"

\* C15 witness of a cancelled run.
C15_WitnessCancelled ==
    /\ exp.pc = "done"
    /\ exp.answer = " yes"
    /\ ~exp.client_created
    /\ exp.calls = <<>>

(***************************************************************************)
(* Properties of the backend                                               *)
(***************************************************************************)

\* C16: GET /api/tasks/ answers 400 'Invalid task specified' when the task
\* is not an allowed one, and 404 when review is false and groupIndex is
\* negative or not less than the number of groups of the fetched HIT file.
C16_InvalidTask400OutOfRange404 ==
    (api.pc = "responded") =>
        /\ api.task \notin tasks =>
              /\ api.response.status_code = 400
              /\ api.response.detail = "Invalid task specified"
        /\ (/\ api.task \in tasks
            /\ ~api.review
            /\ api.fetched.ok
            /\ (api.groupIndex < 0 \/ api.groupIndex >= Len(api.fetched.data)))
              => api.response.status_code = 404

\* What GET /api/tasks/ answers in those cases.
C16_ErrorsAnswered500 ==
    (/\ api.pc = "responded"
     /\ \/ api.task \notin tasks
        \/ (/\ ~api.review
            /\ api.fetched.ok
            /\ (api.groupIndex < 0 \/ api.groupIndex >= Len(api.fetched.data))))
        => /\ api.response.status_code = 500
           /\ api.response.detail = "Internal Server Error"

\* C17: whatever the interleaving of two GET /api/mask/ requests, each
\* response sent with status 200 is the rendering of the segmentation
\* selected by the request's own (task, category, entry_id).
C17_EachResponseIsOwnRendering ==
    api.pc = "mask" =>
        \A r \in 1..2 :
            (api.reqs[r].pc = "sent" /\ api.reqs[r].status_code = 200) =>
                api.reqs[r].body =
                    <<MaskSegmentation(api.reqs[r].task, api.reqs[r].category,
                                       api.reqs[r].entry_id)>>

\* Two requests for the same entry_id of two categories, both answered
\* with the mask of the second one's category.
C17_BothGetTheSameFile ==
    /\ api.pc = "mask"
    /\ api.reqs[1].pc = "sent" /\ api.reqs[2].pc = "sent"
    /\ api.reqs[1].task = "main" /\ api.reqs[2].task = "main"
    /\ api.reqs[1].category # api.reqs[2].category
    /\ api.reqs[1].body = api.reqs[2].body
    /\ api.reqs[2].body # Blank

(***************************************************************************)
(* Properties of create_coco_from_agreements                               *)
(***************************************************************************)

\* The agreement records whose consensus_result is 1.
ConsensusOne == {k \in 1..Len(agr.results) : PyEq(agr.results[k].consensus_result, I(1))}

\* The images and annotations of coco all come from a record of
\* ConsensusOne.
FromConsensusOne(coco) ==
    /\ \A m \in 1..Len(coco.images) :
          \E k \in ConsensusOne : agr.results[k].image_id = coco.images[m].id
    /\ \A m \in 1..Len(coco.annotations) :
          \E k \in ConsensusOne :
              /\ agr.results[k].image_id = coco.annotations[m].image_id
              /\ agr.results[k].annotation_id = coco.annotations[m].annotation_id

\* C18: every image and every annotation of the COCO data produced, and of
\* the file written, comes from an agreement record with consensus_result
\* == 1; with no such record the function returns None and no file is
\* written.
C18_OnlyConsensusOneRecords ==
    agr.pc \in {"processed", "done"} =>
        /\ FromConsensusOne(agr.coco_result)
        /\ FromConsensusOne(agr.written)
        /\ ConsensusOne = {} => (agr.coco_result.none /\ agr.written.none)

\* C18 witness: a file written from an agreement file that holds a record
\* with consensus 1 and one with another consensus.
C18_Witness ==
    /\ agr.pc = "done"
    /\ ~agr.written.none
    /\ Len(agr.written.annotations) = 1
    /\ Len(agr.results) = 2
    /\ Cardinality(ConsensusOne) = 1
    /\ \E k \in 1..2 : agr.results[k].consensus_result = I(0)

\* C18 witness of an agreement file with no record of consensus 1.
C18_WitnessNone ==
    /\ agr.pc = "done"
    /\ agr.readable
    /\ agr.results # <<>>
    /\ ConsensusOne = {}
    /\ agr.written.none

(***************************************************************************)
(* Properties of the written categories                                    *)
(***************************************************************************)

\* C19: in the file convert_cvat_to_rle writes, the category_id of every
\* annotation is the id of an entry of the file's 'categories' list.
C19_CategoryIdsAreListed ==
    cvt.pc = "saved" =>
        \A k \in 1..Len(cvt.written) :
            \E c \in 1..Len(cvt.out_categories) :
                cvt.out_categories[c].id = cvt.written[k].category_id

\* A file written with an annotation named 'Unknown' whose category_id is
\* no entry of 'categories'.
C19_UnknownCategoryWritten ==
    /\ cvt.pc = "saved"
    /\ \E k \in 1..Len(cvt.written) :
          /\ cvt.written[k].category_name = "Unknown"
          /\ \A c \in 1..Len(cvt.out_categories) :
                cvt.out_categories[c].id # cvt.written[k].category_id

(***************************************************************************)
(* Properties of create_cvat_tasks                                         *)
(***************************************************************************)

\* C20: after main finishes, the record file <category>_<hit_id>.json
\* exists if and only if create_hit succeeded on MTurk, and it holds the id
\* MTurk returned; when the creation fails no record is written.
C20_RecordIffHitCreated ==
    crt.pc = "done" =>
        /\ crt.record.exists <=> crt.remote_hit # ""
        /\ crt.record.exists => crt.record.hit_id = crt.remote_hit

\* The half of C20 the script keeps: a record is written only for a HIT
\* MTurk created, under its id.
C20_RecordOnlyForCreatedHit ==
    crt.pc # "off" =>
        (crt.record.exists =>
            /\ crt.remote_hit # ""
            /\ crt.record.hit_id = crt.remote_hit
            /\ crt.record.category = crt.category_name)

\* A run that ended with a HIT on MTurk and no record of it.
C20_HitWithoutRecord ==
    /\ crt.pc = "done"
    /\ crt.remote_hit # ""
    /\ ~crt.record.exists

(***************************************************************************)
(* convert_cvat_to_rle: annotations of an image the file does not list     *)
(***************************************************************************)

\* The positions of the input annotations whose image_id is not in 'images'.
CvtUnlisted(images, anns) ==
    {j \in 1..Len(anns) : ~InImages(images, anns[j].image_id)}

\* C21 as claimed: an annotation whose image_id is not in 'images' is counted
\* as an error and skipped, the other annotations are still processed and the
\* output file is still written, whether or not the annotation already
\* carries 'category_name' and 'instance_id': once the run is over, the file
\* is saved with every annotation in it and error_count counts at least the
\* unlisted ones.
C21_UnlistedImageCountedAndFileWritten ==
    (cvt.pc # "off" /\ cvt.pc # "loaded"
        /\ CvtUnlisted(cvt.images, cvt.annotations) # {}) =>
        /\ cvt.pc = "saved"
        /\ Len(cvt.written) = Len(cvt.annotations)
        /\ cvt.error_count >= Cardinality(CvtUnlisted(cvt.images, cvt.annotations))

\* C21 for the annotations that carry both fields (a file a former run
\* wrote): the unlisted annotation is counted, left as it came, and the file
\* is written.
C21_UnlistedWithFieldsCounted ==
    (cvt.pc # "off" /\ cvt.pc # "loaded"
        /\ CvtUnlisted(cvt.images, cvt.annotations) # {}
        /\ \A j \in CvtUnlisted(cvt.images, cvt.annotations) :
              /\ cvt.annotations[j].category_name # "absent"
              /\ cvt.annotations[j].instance_id.t # "null") =>
        /\ cvt.pc = "saved"
        /\ Len(cvt.written) = Len(cvt.annotations)
        /\ cvt.error_count >= Cardinality(CvtUnlisted(cvt.images, cvt.annotations))
        /\ \A j \in CvtUnlisted(cvt.images, cvt.annotations) :
              cvt.written[j] = cvt.annotations[j]

\* A fresh CVAT export with an annotation of an unlisted image: the run ends
\* in a KeyError and no file is written.
C21_FreshUnlistedRaises ==
    /\ cvt.pc = "raised"
    /\ cvt.written = <<>>
    /\ \E j \in CvtUnlisted(cvt.images, cvt.annotations) :
          cvt.annotations[j].category_name = "absent"

(***************************************************************************)
(* merge_to_spin2: what a merge changes, ids, and running it twice         *)
(***************************************************************************)

\* The annotation_id values of the input annotations of a split.
InputIdsOf(input, split) ==
    {input[k].annotation_id : k \in {j \in 1..Len(input) : lower(input[j].split) = split}}
        \ {AbsentId}

\* C22: a finished merge changes only the spin2 annotations whose 'id' is the
\* 'annotation_id' of an input annotation of the same split: every other
\* annotation, the number and order of the annotations, and the images and
\* categories of each spin2 file are as before the run, and the file of a
\* split with no input annotation is not rewritten.
C22_OnlyMatchedAnnotationsChange ==
    mrg.pc = "done" =>
        \A split \in Spin2Splits :
            LET old == mrg.before[split]
                new == mrg.disk[split]
            IN  /\ new.exists = old.exists
                /\ new.complete = old.complete
                /\ new.images = old.images
                /\ new.categories = old.categories
                /\ Len(new.annotations) = Len(old.annotations)
                /\ \A k \in 1..Len(old.annotations) :
                      new.annotations[k] # old.annotations[k] =>
                          old.annotations[k].id \in InputIdsOf(mrg.input, split)
                /\ AnnotationsBySplit(mrg.input, split) = <<>> =>
                      (split \notin mrg.rewritten /\ new = old)

\* C22 witness: a finished merge that changed one annotation of the train
\* file and left another as it was, rewrote the train file with its images
\* and categories, and did not rewrite the val file, which exists.
C22_Witness ==
    /\ mrg.pc = "done"
    /\ "train" \in mrg.rewritten
    /\ mrg.disk.train.images # <<>>
    /\ \E k \in 1..Len(mrg.before.train.annotations) :
          mrg.disk.train.annotations[k] # mrg.before.train.annotations[k]
    /\ \E k \in 1..Len(mrg.before.train.annotations) :
          mrg.disk.train.annotations[k] = mrg.before.train.annotations[k]
    /\ mrg.before.val.exists
    /\ "val" \notin mrg.rewritten

\* Whether the 'id' values of a list of annotations are pairwise distinct.
DistinctIds(annotations) ==
    \A j, k \in 1..Len(annotations) :
        j # k => annotations[j].id # annotations[k].id

\* C26 as claimed: after any number of merges, in each spin2 file whose ids
\* were pairwise distinct before the first merge the ids are still pairwise
\* distinct and each annotation has the id it had.
C26_IdsKeptAndDistinct ==
    mrg.pc = "done" =>
        \A split \in Spin2Splits :
            DistinctIds(mrg.original[split].annotations) =>
                /\ DistinctIds(mrg.disk[split].annotations)
                /\ Len(mrg.disk[split].annotations)
                       = Len(mrg.original[split].annotations)
                /\ \A k \in 1..Len(mrg.original[split].annotations) :
                      mrg.disk[split].annotations[k].id
                          = mrg.original[split].annotations[k].id

\* One merge of a file create_coco_from_agreements wrote, on a file of
\* distinct ids: two annotations end with the same id.
C26_MergeMakesDuplicateIds ==
    /\ mrg.pc = "done"
    /\ mrg.runs = 1
    /\ DistinctIds(mrg.original.train.annotations)
    /\ ~DistinctIds(mrg.disk.train.annotations)
    /\ \A k \in 1..Len(mrg.input) :
          mrg.input[k].id # AbsentId /\ mrg.input[k].annotation_id # AbsentId

\* C27 as claimed: the second run of the same merge leaves every spin2 file
\* as the first run left it and reports the counts the first run reported.
C27_SecondRunChangesNothing ==
    (mrg.pc = "done" /\ mrg.runs = 2) =>
        /\ mrg.disk = mrg.first.disk
        /\ mrg.stats = mrg.first.stats

\* C27 for input files whose annotations have no 'id' key.
C27_IdempotentWithoutInputId ==
    (mrg.pc = "done" /\ mrg.runs = 2
        /\ \A k \in 1..Len(mrg.input) : mrg.input[k].id = AbsentId) =>
        /\ mrg.disk = mrg.first.disk
        /\ mrg.stats = mrg.first.stats

\* A second run that changes a spin2 file the first run left.
C27_SecondRunChangesFile ==
    /\ mrg.pc = "done"
    /\ mrg.runs = 2
    /\ mrg.disk # mrg.first.disk

\* A second run whose counts differ from those of the first.
C27_SecondRunOtherCounts ==
    /\ mrg.pc = "done"
    /\ mrg.runs = 2
    /\ mrg.first.stats.train.matched >= 1
    /\ mrg.stats.train.matched = 0
    /\ mrg.stats.train.not_found >= 1

(***************************************************************************)
(* create_coco_from_agreements: ids of the COCO data                       *)
(***************************************************************************)

\* The COCO data is well formed: no image id twice in 'images', every
\* annotation's image_id the id of an image, annotation ids 0..M-1 in order.
CocoWellFormed(coco) ==
    /\ \A j, k \in 1..Len(coco.images) :
          j # k => coco.images[j].id # coco.images[k].id
    /\ \A m \in 1..Len(coco.annotations) :
          \E k \in 1..Len(coco.images) :
              coco.images[k].id = coco.annotations[m].image_id
    /\ \A m \in 1..Len(coco.annotations) : coco.annotations[m].id = m - 1

\* C23: in the COCO data process_agreement_file_to_coco returns, and in the
\* file written from it, each image id appears at most once in 'images',
\* every annotation's image_id is the id of an entry of 'images', and the
\* annotation ids are 0..M-1 in the order the annotations were added.
C23_ImagesOnceAnnotationsNumbered ==
    agr.pc \in {"processed", "done"} =>
        /\ CocoWellFormed(agr.coco_result)
        /\ CocoWellFormed(agr.written)

\* C23 witness: a file written with two annotations of one image, added in
\* the order of the agreement records.
C23_Witness ==
    /\ agr.pc = "done"
    /\ Len(agr.written.images) = 1
    /\ Len(agr.written.annotations) = 2
    /\ agr.written.annotations[1].annotation_id = agr.results[1].annotation_id
    /\ agr.written.annotations[2].annotation_id = agr.results[2].annotation_id
    /\ agr.written.annotations[1].annotation_id # agr.written.annotations[2].annotation_id

\* C23 witness of one image id met in two splits: it is added once.
C23_WitnessTwoSplits ==
    /\ agr.pc = "done"
    /\ Len(agr.written.images) = 1
    /\ Len(agr.written.annotations) = 2
    /\ agr.written.annotations[1].split # agr.written.annotations[2].split

(***************************************************************************)
(* Properties of check_multiple_first_appearance                           *)
(***************************************************************************)

\* The orders in which the submissions of the group can be listed.
Reorderings(submissions) ==
    {[k \in 1..Len(submissions) |-> submissions[p[k]]] :
        p \in {q \in [1..Len(submissions) -> 1..Len(submissions)] :
                  \A i, j \in 1..Len(submissions) : i # j => q[i] # q[j]}}

\* The consensus the claim describes at one position: the single non-null
\* result; of two or more, the value held by at least two workers and by
\* more workers than any other value; else nothing.
ClaimedAt(rows, ann_idx) ==
    LET results == ann_results(rows, ann_idx)
        held(v) == result_counts(results, v)
        top == {k \in 1..Len(results) :
                   /\ held(results[k]) >= 2 \/ CounterKeys(results) = 1
                   /\ \A j \in 1..Len(results) :
                         PyEq(results[j], results[k])
                             \/ held(results[j]) < held(results[k])}
    IN  IF Len(results) = 1 THEN {results[1]}
        ELSE {results[k] : k \in top}

\* The positions for which a consensus is reported, in order.
Reported(rows) ==
    KeptIndices([i \in 1..max_len(rows) |-> ConsensusAt(rows, i).some], max_len(rows))

\* C24 as claimed: a consensus is reported for a position only when
\* agreement exists: two or more non-null results yield the value that is
\* unanimous or held by a majority of at least two workers, whatever the
\* order of the submissions; nothing is yielded when no value is held by two
\* workers; a single non-null result is passed through.
C24_ConsensusIsTheMajorityInAnyOrder ==
    chk.pc = "agreement" =>
        /\ \A i \in 1..max_len(chk.submissions) :
              IF ClaimedAt(chk.submissions, i) = {}
              THEN ~ConsensusAt(chk.submissions, i).some
              ELSE /\ ConsensusAt(chk.submissions, i).some
                   /\ \E v \in ClaimedAt(chk.submissions, i) :
                         PyEq(v, ConsensusAt(chk.submissions, i).value)
        /\ \A other \in Reorderings(chk.submissions) :
              LET r == check_annotation_agreement(other)
              IN  /\ Len(r) = Len(chk.consensus_results)
                  /\ \A m \in 1..Len(r) : PyEq(r[m], chk.consensus_results[m])

\* C24 without the tie: every value reported is a single non-null result or
\* is held by at least two workers and by no fewer than any other value, and
\* nothing is reported when no value is held by two workers.
C24_ReportedValueIsHeldByMost ==
    chk.pc = "agreement" =>
        /\ Len(chk.consensus_results) = Len(Reported(chk.submissions))
        /\ \A m \in 1..Len(chk.consensus_results) :
              LET results == ann_results(chk.submissions, Reported(chk.submissions)[m])
                  v == chk.consensus_results[m]
              IN  /\ \E k \in 1..Len(results) : results[k] = v
                  /\ Len(results) >= 2 => result_counts(results, v) >= 2
                  /\ \A k \in 1..Len(results) :
                        result_counts(results, results[k]) <= result_counts(results, v)
        /\ \A i \in 1..max_len(chk.submissions) :
              LET results == ann_results(chk.submissions, i)
              IN  (/\ Len(results) >= 2
                   /\ \A k \in 1..Len(results) : result_counts(results, results[k]) < 2)
                      => ~ConsensusAt(chk.submissions, i).some

\* Four workers, two of whom answered 0 and then two 1: a consensus of 0 is
\* reported, and 1 when the submissions are listed the other way round.
C24_TieFollowsTheOrder ==
    /\ chk.pc = "agreement"
    /\ chk.submissions = <<(<<I(0)>>), (<<I(0)>>), (<<I(1)>>), (<<I(1)>>)>>
    /\ chk.consensus_results = <<I(0)>>
    /\ check_annotation_agreement(<<(<<I(1)>>), (<<I(1)>>), (<<I(0)>>), (<<I(0)>>)>>)
           = <<I(1)>>

\* The consensus results of the first n groups, in group order.
RECURSIVE AllConsensus(_, _, _)
AllConsensus(split, groups, n) ==
    IF n = 0 THEN <<>>
    ELSE AllConsensus(split, groups, n - 1) \o GroupConsensus(split, groups[n])

\* The 1-based positions, among all consensus results of the category, of
\* the results equal to 1.
MultiplePositions ==
    LET all == AllConsensus(chk.split, chk.groups, Len(chk.groups))
    IN  KeptIndices([k \in 1..Len(all) |-> PyEq(all[k], I(1))], Len(all))

\* C25: the count of a category stops at the fifth consensus result equal
\* to 1: first_multiple_at_annotation is the position of the first such
\* result in group order, annotations_to_5_multiples that of the fifth,
\* multiple_count never exceeds 5, total_annotations is
\* annotations_to_5_multiples whenever five were reached, and
\* first_multiple_at_annotation <= annotations_to_5_multiples.
C25_CountStopsAtFifthMultiple ==
    /\ chk.pc = "groups" => chk.counters.multiple_count <= 5
    /\ chk.pc = "stored" =>
          LET at == MultiplePositions
              e == chk.category_first_multiples
          IN  /\ e.stored = (Len(at) >= 1)
              /\ e.multiple_count <= 5
              /\ Len(at) >= 1 => e.first_multiple_at_annotation = at[1]
              /\ e.reached_5_multiples = (Len(at) >= 5)
              /\ Len(at) >= 5 =>
                    /\ e.annotations_to_5_multiples = at[5]
                    /\ e.total_annotations = e.annotations_to_5_multiples
                    /\ e.multiple_count = 5
                    /\ e.first_multiple_at_annotation <= e.annotations_to_5_multiples
              /\ (Len(at) >= 1 /\ Len(at) < 5) =>
                    /\ e.annotations_to_5_multiples = AbsentId
                    /\ e.multiple_count = Len(at)

\* C25 witness: a category with more than five results equal to 1, the
\* first of which is not the first result, and with groups left after the
\* fifth.
C25_Witness ==
    /\ chk.pc = "stored"
    /\ Len(MultiplePositions) > 5
    /\ chk.category_first_multiples.first_multiple_at_annotation > 1
    /\ chk.category_first_multiples.annotations_to_5_multiples > 5
    /\ chk.category_first_multiples.multiple_count = 5
    /\ chk.g <= Len(chk.groups)

\* C25 witness of a category that did not reach five.
C25_WitnessNotReached ==
    /\ chk.pc = "stored"
    /\ chk.category_first_multiples.stored
    /\ ~chk.category_first_multiples.reached_5_multiples
    /\ chk.category_first_multiples.multiple_count = 3

(***************************************************************************)
(* Properties of the entry endpoints of the backend                        *)
(***************************************************************************)

\* C28 as claimed: for GET /api/image/, /api/mask/ and /api/category/ an
\* entry_id outside 0..len(annotations)-1, negative values included, never
\* gets a successful response built from another annotation: the request
\* ends in an error response.
C28_EntryOutOfRangeIsAnError ==
    (/\ api.pc = "answered"
     /\ api.entry_id < 0 \/ api.entry_id >= Len(api.file.annotations)) =>
        (~api.ok /\ api.status_code >= 400)

\* C28 for the entry ids past the end of the list and below minus its
\* length: the IndexError is answered 500 (400 for an invalid task).
C28_EntryBeyondTheListIsAnError ==
    (/\ api.pc = "answered"
     /\ \/ api.entry_id >= Len(api.file.annotations)
        \/ api.entry_id < 0 - Len(api.file.annotations)) =>
        (~api.ok /\ api.status_code \in {400, 500})

\* entry_id = -1 is answered 200 with what the last annotation of the file
\* gives: the body the request for entry_id = len - 1 gets.
C28_MinusOneServesTheLastAnnotation ==
    /\ api.pc = "answered"
    /\ api.entry_id = 0 - 1
    /\ api.ok
    /\ api.status_code = 200
    /\ LET r == EntryHandler(api.endpoint, api.task,
                             Len(api.file.annotations) - 1, api.file, api.head_ok)
       IN  ~r.raised /\ api.body = <<r.content>>

====
